---- MODULE Spec2Model ----
(***************************************************************************)
(* A model of mrnet: the pathway reconstruction of                         *)
(* mrnet/stochastic/analyze.py and the reaction enumeration of             *)
(* mrnet/core/reactions.py.                                                *)
(***************************************************************************)
EXTENDS Integers, Sequences, FiniteSets, TLC

VARIABLES
    initial_state,          \* SimulationAnalyzer.initial_state: species -> count
    reaction_histories,     \* SimulationAnalyzer.reaction_histories
    reaction_pathways_dict, \* SimulationAnalyzer.reaction_pathways_dict
    an_pc,                  \* the analyzer: "off", "idle", or "hung" in a call
    arg_pathways,           \* the argument of collect_duplicate_pathways
    ret_pathway_dict,       \* its result
    cp_pc,                  \* "off", "called", "returned"
    histories_contents,     \* sorted(os.listdir(histories_folder))
    files_read,             \* the files __init__ has opened, in order
    ctor_pc,                \* __init__: "off", "new", "raised", "loaded"
    mol_entries,            \* the list of MoleculeEntry objects given to the network
    entries,                \* entries[formula][num_bonds][charge]: the bucketed list
    net_pc,                 \* "off", "new", "bucketed", then the operation made
    net_out,                \* what the operation returned
    rxn,                    \* a Reaction object: its entries and energy attributes
    rxn_pc,                 \* "off", "constructed", or how the last call on it ended
    rxn_graph,              \* the nx.DiGraph the last graph builder returned
    cat_families,           \* families[charge][label]: the categorized reactions
    cat_templates,          \* templates: the list of template environments
    categorized,            \* the categorize calls made so far, in order
    mol_doc,                \* the document given to from_molecule_document
    doc_out,                \* what from_molecule_document did with it
    consumption_info        \* what extract_species_consumption_info last returned

analyzerVars == <<initial_state, reaction_histories, reaction_pathways_dict, an_pc,
                  consumption_info>>
collectVars == <<arg_pathways, ret_pathway_dict, cp_pc>>
loaderVars == <<histories_contents, files_read, ctor_pc>>
networkVars == <<mol_entries, entries, net_pc, net_out>>
reactionVars == <<rxn, rxn_pc>>
graphVars == <<rxn_graph>>
categorizeVars == <<cat_families, cat_templates, categorized>>
documentVars == <<mol_doc, doc_out>>

vars == <<analyzerVars, collectVars, loaderVars, networkVars, reactionVars,
          graphVars, categorizeVars, documentVars>>

(***************************************************************************)
(* Bounds of the model.                                                    *)
(***************************************************************************)
MaxHistLen == 3
MaxMolecules == 1
MaxRounds == 4
MergeHistLen == 2
NumHist == 2
MaxPathLen == 2
MaxPathways == 3
MaxSeed == 2
MaxEntries == 3

None == "None"

(***************************************************************************)
(* Generic helpers on sequences.                                           *)
(***************************************************************************)
RECURSIVE CountIn(_, _)
CountIn(seq, x) ==
    IF seq = <<>> THEN 0
    ELSE (IF Head(seq) = x THEN 1 ELSE 0) + CountIn(Tail(seq), x)

InSeq(x, seq) == \E i \in 1..Len(seq) : seq[i] = x

SeqSet(seq) == {seq[i] : i \in 1..Len(seq)}

RECURSIVE SeqsUpTo(_, _)
SeqsUpTo(S, n) ==
    IF n = 0 THEN {<<>>}
    ELSE LET shorter == SeqsUpTo(S, n - 1)
         IN  shorter \cup {Append(q, x) : q \in shorter, x \in S}

(***************************************************************************)
(* The serialized reaction network (rnsd): species are 0..3, and           *)
(* index_to_reaction maps a reaction index to its reactants and products.  *)
(***************************************************************************)
Species == 0..3

ReactionTable == <<
    [reactants |-> <<0>>,    products |-> <<1>>],
    [reactants |-> <<1>>,    products |-> <<2>>],
    [reactants |-> <<2>>,    products |-> <<3>>],
    [reactants |-> <<3>>,    products |-> <<2>>],
    [reactants |-> <<2>>,    products |-> <<1>>],
    [reactants |-> <<0>>,    products |-> <<1, 1>>],
    [reactants |-> <<1, 2>>, products |-> <<3>>],
    [reactants |-> <<0>>,    products |-> <<1, 2>>] >>

ReactionIndices == 0..(Len(ReactionTable) - 1)

index_to_reaction(i) == ReactionTable[i + 1]

(***************************************************************************)
(* update_state: -1 per reactant occurrence, +1 per product occurrence.    *)
(***************************************************************************)
update_state(state, reaction) ==
    [s \in DOMAIN state |->
        state[s] - CountIn(reaction.reactants, s) + CountIn(reaction.products, s)]

RECURSIVE Replay(_, _)
Replay(state, history) ==
    IF history = <<>> THEN state
    ELSE Replay(update_state(state, index_to_reaction(Head(history))), Tail(history))

NonNegative(state) == \A s \in DOMAIN state : state[s] >= 0

\* A history a simulation can have written: no prefix drives a count negative.
ValidTrajectory(state, history) ==
    \A n \in 0..Len(history) : NonNegative(Replay(state, SubSeq(history, 1, n)))

(***************************************************************************)
(* collect_duplicate_pathways: a dict keyed by frozenset(pathway); the     *)
(* first pathway of a key is kept, later ones only raise its frequency.    *)
(***************************************************************************)
EmptyDict == [k \in {} |-> None]

DictPut(d, key, value) ==
    [k \in (DOMAIN d) \cup {key} |-> IF k = key THEN value ELSE d[k]]

\* A key of the first reaction of the pathway alone.
PathwayKeyFirst(pathway) == IF pathway = <<>> THEN {} ELSE {Head(pathway)}

\* key = frozenset(pathway)
PathwayKey(pathway) == SeqSet(pathway)

RECURSIVE CollectInto(_, _)
CollectInto(pathway_dict, pathways) ==
    IF pathways = <<>> THEN pathway_dict
    ELSE LET pathway == Head(pathways)
             key == PathwayKey(pathway)
             updated ==
                 IF key \in DOMAIN pathway_dict
                 THEN [pathway_dict EXCEPT ![key].frequency = @ + 1]
                 ELSE DictPut(pathway_dict, key, [pathway |-> pathway, frequency |-> 1])
         IN  CollectInto(updated, Tail(pathways))

collect_duplicate_pathways(pathways) == CollectInto(EmptyDict, pathways)

(***************************************************************************)
(* extract_reaction_pathways, one history at a time.                       *)
(***************************************************************************)
\* The inner scans "for reaction_index in reaction_history: if species in
\* reaction['products']: ... break": the first producer, or -1.
RECURSIVE FirstProducerOrZero(_, _)
FirstProducerOrZero(history, s) ==
    IF history = <<>> THEN 0
    ELSE IF InSeq(s, index_to_reaction(Head(history)).products) THEN Head(history)
    ELSE FirstProducerOrZero(Tail(history), s)

RECURSIVE FirstProducer(_, _)
FirstProducer(history, s) ==
    IF history = <<>> THEN -1
    ELSE IF InSeq(s, index_to_reaction(Head(history)).products) THEN Head(history)
    ELSE FirstProducer(Tail(history), s)

RECURSIVE Ascending(_)
Ascending(S) ==
    IF S = {} THEN <<>>
    ELSE LET m == CHOOSE x \in S : \A y \in S : x <= y
         IN  <<m>> \o Ascending(S \ {m})

\* list(np.where(partial_state < 0)[0])
NegativeSpecies(partial_state) ==
    Ascending({s \in DOMAIN partial_state : partial_state[s] < 0})

\* A pathway that grows at its end.
InsertLast(pathway, reaction_index) == pathway \o <<reaction_index>>

\* pathway.insert(0, reaction_index)
InsertFirst(pathway, reaction_index) == <<reaction_index>> \o pathway

\* One pass of the body of "for species_index in negative_species".
ResolveSpecies(st, history, species_index) ==
    LET reaction_index == FirstProducer(history, species_index)
    IN  IF reaction_index = -1 THEN st
        ELSE [partial_state |->
                  update_state(st.partial_state, index_to_reaction(reaction_index)),
              pathway |-> InsertFirst(st.pathway, reaction_index)]

\* The whole "for species_index in negative_species" loop, over the list
\* computed before the loop started.
RECURSIVE ResolveRound(_, _, _)
ResolveRound(st, history, negative_species) ==
    IF negative_species = <<>> THEN st
    ELSE ResolveRound(ResolveSpecies(st, history, Head(negative_species)),
                      history, Tail(negative_species))

\* "while len(negative_species) != 0": returns with status "done"; a round
\* that changes nothing repeats forever ("hang"); rounds past MaxRounds are
\* not followed ("fuel").
RECURSIVE ResolveLoop(_, _, _)
ResolveLoop(st, history, fuel) ==
    LET negative_species == NegativeSpecies(st.partial_state)
        after == ResolveRound(st, history, negative_species)
    IN  IF negative_species = <<>>
        THEN [status |-> "done", partial_state |-> st.partial_state,
              pathway |-> st.pathway]
        ELSE IF after = st
        THEN [status |-> "hang", partial_state |-> st.partial_state,
              pathway |-> st.pathway]
        ELSE IF fuel = 0
        THEN [status |-> "fuel", partial_state |-> st.partial_state,
              pathway |-> st.pathway]
        ELSE ResolveLoop(after, history, fuel - 1)

\* The body of "for reaction_history in self.reaction_histories".
ExtractPathway(state, history, target_species_index) ==
    LET reaction_producing_target_index == FirstProducer(history, target_species_index)
    IN  IF reaction_producing_target_index = -1
        THEN [status |-> "absent", partial_state |-> state, pathway |-> <<>>]
        ELSE ResolveLoop(
                 [partial_state |->
                      update_state(state, index_to_reaction(reaction_producing_target_index)),
                  pathway |-> <<reaction_producing_target_index>>],
                 history, MaxRounds)

\* Updates made to self.initial_state itself.
StateAfterHistoryAliased(state, r) == r.partial_state

\* "partial_state = np.copy(self.initial_state)": the updates of one history
\* are made to a copy, so self.initial_state after the history is what it was.
StateAfterHistory(state, r) == state

\* The loop over self.reaction_histories: reaction_pathway_list, the
\* analyzer's initial_state afterwards, and whether the loop came to its end.
RECURSIVE RunHistories(_, _, _)
RunHistories(state, histories, target_species_index) ==
    IF histories = <<>>
    THEN [returned |-> TRUE, initial_state |-> state, reaction_pathway_list |-> <<>>]
    ELSE LET r == ExtractPathway(state, Head(histories), target_species_index)
         IN  IF r.status \in {"hang", "fuel"}
             THEN [returned |-> FALSE, initial_state |-> state,
                   reaction_pathway_list |-> <<>>]
             ELSE LET rest == RunHistories(StateAfterHistory(state, r),
                                           Tail(histories), target_species_index)
                  IN  [returned |-> rest.returned,
                       initial_state |-> rest.initial_state,
                       reaction_pathway_list |->
                           (IF r.status = "done" THEN <<r.pathway>> ELSE <<>>)
                               \o rest.reaction_pathway_list]

\* What extract_reaction_pathways stores under the target.
extract_reaction_pathways(state, histories, target_species_index) ==
    collect_duplicate_pathways(
        RunHistories(state, histories, target_species_index).reaction_pathway_list)

(***************************************************************************)
(* The analyzer: constructed over the histories of a simulation, then      *)
(* asked for the pathways to target species.                               *)
(***************************************************************************)
RECURSIVE SumOver(_, _)
SumOver(f, S) ==
    IF S = {} THEN 0
    ELSE LET x == CHOOSE y \in S : TRUE IN f[x] + SumOver(f, S \ {x})

\* Initial states of at most MaxMolecules molecules.
InitialStates ==
    {st \in [Species -> 0..MaxMolecules] : SumOver(st, Species) <= MaxMolecules}

\* Initial states of one seed molecule.
SeedStates == {[s \in Species |-> IF s = x THEN 1 ELSE 0] : x \in Species}

\* The histories a simulation started in the state can write.
Trajectories(state, n) ==
    {h \in SeqsUpTo(ReactionIndices, n) : ValidTrajectory(state, h)}

ExtractReactionPathways(target_species_index) ==
    /\ an_pc = "idle"
    /\ LET run == RunHistories(initial_state, reaction_histories, target_species_index)
       IN  IF run.returned
           THEN /\ reaction_pathways_dict' =
                       DictPut(reaction_pathways_dict, target_species_index,
                               collect_duplicate_pathways(run.reaction_pathway_list))
                /\ initial_state' = run.initial_state
                /\ an_pc' = "idle"
           ELSE /\ an_pc' = "hung"
                /\ UNCHANGED <<reaction_pathways_dict, initial_state>>
    /\ UNCHANGED <<reaction_histories, consumption_info, collectVars, loaderVars,
                 networkVars, reactionVars, graphVars, categorizeVars, documentVars>>

AnalyzerOff ==
    /\ initial_state = [s \in Species |-> 0]
    /\ reaction_histories = <<>>
    /\ reaction_pathways_dict = EmptyDict
    /\ an_pc = "off"
    /\ consumption_info = <<>>

CollectOff == arg_pathways = <<>> /\ ret_pathway_dict = EmptyDict /\ cp_pc = "off"

LoaderOff == histories_contents = <<>> /\ files_read = <<>> /\ ctor_pc = "off"

NetworkOff == mol_entries = <<>> /\ entries = <<>> /\ net_pc = "off" /\ net_out = <<>>

ReactionOff == rxn = <<>> /\ rxn_pc = "off"

GraphOff == rxn_graph = <<>>

CategorizeOff == cat_families = <<>> /\ cat_templates = <<>> /\ categorized = <<>>

DocumentOff == mol_doc = <<>> /\ doc_out = <<>>

\* An analyzer over one history.
InitPathway ==
    /\ initial_state \in InitialStates
    /\ reaction_histories \in {<<h>> : h \in Trajectories(initial_state, MaxHistLen)}
    /\ reaction_pathways_dict = EmptyDict
    /\ an_pc = "idle"
    /\ consumption_info = <<>>
    /\ CollectOff
    /\ LoaderOff
    /\ NetworkOff
    /\ ReactionOff
    /\ GraphOff
    /\ CategorizeOff
    /\ DocumentOff

NextPathway == \E t \in Species : ExtractReactionPathways(t)

SpecPathway == InitPathway /\ [][NextPathway]_vars

\* An analyzer over the histories of up to NumHist simulations of one seed
\* molecule.
InitMerge ==
    /\ initial_state \in SeedStates
    /\ reaction_histories \in SeqsUpTo(Trajectories(initial_state, MergeHistLen), NumHist)
    /\ reaction_pathways_dict = EmptyDict
    /\ an_pc = "idle"
    /\ consumption_info = <<>>
    /\ CollectOff
    /\ LoaderOff
    /\ NetworkOff
    /\ ReactionOff
    /\ GraphOff
    /\ CategorizeOff
    /\ DocumentOff

NextMerge == \E t \in Species : ExtractReactionPathways(t)

SpecMerge == InitMerge /\ [][NextMerge]_vars

(***************************************************************************)
(* collect_duplicate_pathways called on a list of pathways.  The function  *)
(* compares reaction indices only for equality: the lists are drawn over   *)
(* two indices.                                                            *)
(***************************************************************************)
CollectIndices == {0, 1}

InitCollect ==
    /\ arg_pathways \in SeqsUpTo(SeqsUpTo(CollectIndices, MaxPathLen), MaxPathways)
    /\ ret_pathway_dict = EmptyDict
    /\ cp_pc = "called"
    /\ AnalyzerOff
    /\ LoaderOff
    /\ NetworkOff
    /\ ReactionOff
    /\ GraphOff
    /\ CategorizeOff
    /\ DocumentOff

CollectDuplicatePathways ==
    /\ cp_pc = "called"
    /\ ret_pathway_dict' = collect_duplicate_pathways(arg_pathways)
    /\ cp_pc' = "returned"
    /\ UNCHANGED <<arg_pathways, analyzerVars, loaderVars, networkVars, reactionVars,
                 graphVars, categorizeVars, documentVars>>

NextCollect == CollectDuplicatePathways

SpecCollect == InitCollect /\ [][NextCollect]_vars

(***************************************************************************)
(* Claims about the pathway reconstruction.                                *)
(***************************************************************************)
Frequency(d, key) == IF key \in DOMAIN d THEN d[key].frequency ELSE 0

RECURSIVE TotalFrequency(_)
TotalFrequency(d) ==
    IF DOMAIN d = {} THEN 0
    ELSE LET key == CHOOSE k \in DOMAIN d : TRUE
         IN  d[key].frequency
                 + TotalFrequency([k \in (DOMAIN d) \ {key} |-> d[k]])

ProducesTarget(history, t) ==
    \E i \in 1..Len(history) : InSeq(t, index_to_reaction(history[i]).products)

\* C1: every pathway stored by extract_reaction_pathways for a valid history,
\* applied in list order to the initial state with update_state, never drives
\* a species count negative after any prefix and ends with a positive count
\* of the target species.
C1_StoredPathwayReplays ==
    \A t \in DOMAIN reaction_pathways_dict :
        \A key \in DOMAIN reaction_pathways_dict[t] :
            LET p == reaction_pathways_dict[t][key].pathway
            IN  /\ ValidTrajectory(initial_state, p)
                /\ Replay(initial_state, p)[t] > 0

\* The part of C1 the code keeps: the stored pathway as a whole (all its
\* reactions applied) leaves no count negative and the target positive.
C1_StoredPathwayBalances ==
    \A t \in DOMAIN reaction_pathways_dict :
        \A key \in DOMAIN reaction_pathways_dict[t] :
            LET p == reaction_pathways_dict[t][key].pathway
            IN  /\ NonNegative(Replay(initial_state, p))
                /\ Replay(initial_state, p)[t] > 0

\* A linear chain: r_i consumes one s_i and produces one s_{i+1}, the s_i are
\* distinct, the state holds exactly one s_0 and the target is s_{n+1}.
IsLinearChain(state, history, t) ==
    /\ Len(history) >= 1
    /\ \A i \in 1..Len(history) :
           /\ Len(index_to_reaction(history[i]).reactants) = 1
           /\ Len(index_to_reaction(history[i]).products) = 1
    /\ \A i \in 1..(Len(history) - 1) :
           index_to_reaction(history[i]).products[1]
               = index_to_reaction(history[i + 1]).reactants[1]
    /\ LET chain == <<index_to_reaction(history[1]).reactants[1]>> \o
                    [i \in 1..Len(history) |-> index_to_reaction(history[i]).products[1]]
       IN  /\ \A i, j \in 1..Len(chain) : i # j => chain[i] # chain[j]
           /\ state = [s \in Species |-> IF s = chain[1] THEN 1 ELSE 0]
           /\ t = chain[Len(chain)]

\* C2: for a single history that is a linear chain from the one molecule of
\* the initial state to the target, exactly one record is stored: the
\* history itself, in order, with frequency 1.
C2_LinearChain ==
    \A t \in DOMAIN reaction_pathways_dict :
        (/\ Len(reaction_histories) = 1
         /\ IsLinearChain(initial_state, reaction_histories[1], t))
        => reaction_pathways_dict[t] =
               [key \in {SeqSet(reaction_histories[1])} |->
                   [pathway |-> reaction_histories[1], frequency |-> 1]]

C2_Witness ==
    \E t \in DOMAIN reaction_pathways_dict :
        /\ Len(reaction_histories) = 1
        /\ Len(reaction_histories[1]) >= 2
        /\ IsLinearChain(initial_state, reaction_histories[1], t)

\* C3: a history in which no reaction lists the target among its products
\* contributes no pathway and raises no error: the call returns and records
\* reaction_pathways_dict[target], which is empty when no history produces
\* the target.
C3_TargetNotProduced ==
    [][\A t \in Species :
          ExtractReactionPathways(t) =>
              LET producing == {i \in 1..Len(reaction_histories) :
                                    ProducesTarget(reaction_histories[i], t)}
              IN  /\ (producing = {} =>
                         /\ an_pc' = "idle"
                         /\ t \in DOMAIN reaction_pathways_dict'
                         /\ reaction_pathways_dict'[t] = EmptyDict)
                  /\ (an_pc' = "idle" =>
                         /\ t \in DOMAIN reaction_pathways_dict'
                         /\ TotalFrequency(reaction_pathways_dict'[t])
                                = Cardinality(producing))]_vars

C3_Witness ==
    \E t \in DOMAIN reaction_pathways_dict :
        /\ Len(reaction_histories) = 2
        /\ Len(reaction_histories[1]) >= 1
        /\ ~ProducesTarget(reaction_histories[1], t)
        /\ ProducesTarget(reaction_histories[2], t)
        /\ TotalFrequency(reaction_pathways_dict[t]) = 1

\* C4: collect_duplicate_pathways keeps one record per set of reaction
\* indices (two pathways share a record exactly when their sets are equal),
\* a record's frequency is the number of input pathways with its set, and
\* the frequencies sum to the number of input pathways.
C4_CollectBySet ==
    cp_pc = "returned" =>
        /\ DOMAIN ret_pathway_dict =
               {SeqSet(arg_pathways[i]) : i \in 1..Len(arg_pathways)}
        /\ \A key \in DOMAIN ret_pathway_dict :
               ret_pathway_dict[key].frequency =
                   Cardinality({i \in 1..Len(arg_pathways) :
                                    SeqSet(arg_pathways[i]) = key})
        /\ TotalFrequency(ret_pathway_dict) = Len(arg_pathways)

C4_Witness ==
    /\ cp_pc = "returned"
    /\ \E i, j \in 1..Len(arg_pathways) :
           /\ arg_pathways[i] # arg_pathways[j]
           /\ SeqSet(arg_pathways[i]) = SeqSet(arg_pathways[j])
           /\ ret_pathway_dict[SeqSet(arg_pathways[i])].frequency >= 2
    /\ Cardinality(DOMAIN ret_pathway_dict) >= 2

RECURSIVE Pick(_, _)
Pick(seq, I) ==
    IF seq = <<>> THEN <<>>
    ELSE Pick(SubSeq(seq, 1, Len(seq) - 1), I)
             \o (IF Len(seq) \in I THEN <<seq[Len(seq)]>> ELSE <<>>)

\* C5: the histories are processed independently: the frequency recorded for
\* each set of reaction indices over the list of histories is the sum of the
\* frequencies recorded for the two parts of any partition of the list, and
\* the sum of what each history gives when processed alone.
C5_PartitionMerge ==
    \A t \in DOMAIN reaction_pathways_dict :
        LET all == 1..Len(reaction_histories)
            whole == reaction_pathways_dict[t]
        IN  /\ \A I \in {J \in SUBSET all : 1 \in J} :   \* a partition is unordered
                   LET part == extract_reaction_pathways(
                                   initial_state, Pick(reaction_histories, I), t)
                       rest == extract_reaction_pathways(
                                   initial_state, Pick(reaction_histories, all \ I), t)
                   IN  \A key \in DOMAIN whole \cup DOMAIN part \cup DOMAIN rest :
                           Frequency(whole, key)
                               = Frequency(part, key) + Frequency(rest, key)
            /\ \A key \in DOMAIN whole :
                   Frequency(whole, key)
                       = Cardinality({i \in all :
                             key \in DOMAIN extract_reaction_pathways(
                                         initial_state, <<reaction_histories[i]>>, t)})

C5_Witness ==
    \E t \in DOMAIN reaction_pathways_dict :
        /\ Len(reaction_histories) = 2
        /\ reaction_histories[1] # reaction_histories[2]
        /\ \E key \in DOMAIN reaction_pathways_dict[t] :
               reaction_pathways_dict[t][key].frequency = 2

(***************************************************************************)
(* SimulationAnalyzer.__init__ over a histories folder.  A file name is    *)
(* "<prefix>_<seed>"; os.listdir is sorted by name.                        *)
(***************************************************************************)
FileNames ==
    {[prefix |-> p, seed |-> k] : p \in {"notes", "reactions", "times"}, k \in 1..MaxSeed}

\* The order of sorted() on the names: by prefix, then by seed.
NameBefore(a, b) ==
    LET rank == [q \in {"notes", "reactions", "times"} |->
                    IF q = "notes" THEN 0 ELSE IF q = "reactions" THEN 1 ELSE 2]
    IN  \/ rank[a.prefix] < rank[b.prefix]
        \/ a.prefix = b.prefix /\ a.seed < b.seed

RECURSIVE SortedNames(_)
SortedNames(S) ==
    IF S = {} THEN <<>>
    ELSE LET m == CHOOSE x \in S : \A y \in S \ {x} : NameBefore(x, y)
         IN  <<m>> \o SortedNames(S \ {m})

\* [x for x in histories_contents if x.startswith(prefix)]
StartsWith(contents, prefix) ==
    LET Test(x) == x.prefix = prefix IN SelectSeq(contents, Test)

reaction_histories_contents(contents) == StartsWith(contents, "reactions")

time_histories_contents(contents) == StartsWith(contents, "times")

\* [x.split("_")[1] for x in ...]
SeedsOf(names) == [i \in 1..Len(names) |-> names[i].seed]

reaction_seeds(contents) == SeedsOf(reaction_histories_contents(contents))

\* Line 64 reads the seeds of reaction_histories_contents again.
time_seeds(contents) == SeedsOf(reaction_histories_contents(contents))

InitLoader ==
    /\ histories_contents \in {SortedNames(S) : S \in SUBSET FileNames}
    /\ files_read = <<>>
    /\ ctor_pc = "new"
    /\ AnalyzerOff
    /\ CollectOff
    /\ NetworkOff
    /\ ReactionOff
    /\ GraphOff
    /\ CategorizeOff
    /\ DocumentOff

Construct ==
    /\ ctor_pc = "new"
    /\ IF reaction_seeds(histories_contents) # time_seeds(histories_contents)
       THEN /\ ctor_pc' = "raised"
            /\ UNCHANGED files_read
       ELSE /\ files_read' = reaction_histories_contents(histories_contents)
                                 \o time_histories_contents(histories_contents)
            /\ ctor_pc' = "loaded"
    /\ UNCHANGED <<histories_contents, analyzerVars, collectVars, networkVars, reactionVars,
                 graphVars, categorizeVars, documentVars>>

NextLoader == Construct

SpecLoader == InitLoader /\ [][NextLoader]_vars

\* C6: constructing a SimulationAnalyzer over a folder whose reaction-history
\* files and time-history files carry different lists of seeds fails with a
\* ValueError before any history file is read.
C6_MismatchedSeedsRaise ==
    (/\ ctor_pc \in {"raised", "loaded"}
     /\ SeedsOf(StartsWith(histories_contents, "reactions"))
            # SeedsOf(StartsWith(histories_contents, "times")))
    => (ctor_pc = "raised" /\ files_read = <<>>)

(***************************************************************************)
(* Molecule entries.  A molecule graph has atoms 0..n-1, the species of    *)
(* each atom and the list of its bonds; an entry adds an id and a charge.  *)
(***************************************************************************)
Elements == {"H", "O", "Li"}

ZeroBased(seq) == [i \in 0..(Len(seq) - 1) |-> seq[i + 1]]

MolGraph(species, bonds) == [species |-> ZeroBased(species), bonds |-> bonds]

\* The molecules of the population: H, O, O-H, H-O (the same molecule with
\* its atoms in the other order), H-O-H, O-H-H (same formula and bond count,
\* another structure) and the ring O3 (no bond of it disconnects it).
MoleculePool ==
    { [mol_graph |-> MolGraph(<<"H">>, <<>>), charge |-> 0],
      [mol_graph |-> MolGraph(<<"H">>, <<>>), charge |-> 1],
      [mol_graph |-> MolGraph(<<"O">>, <<>>), charge |-> 0],
      [mol_graph |-> MolGraph(<<"O", "H">>, <<<<0, 1>>>>), charge |-> 0],
      [mol_graph |-> MolGraph(<<"O", "H">>, <<<<0, 1>>>>), charge |-> -1],
      [mol_graph |-> MolGraph(<<"H", "O">>, <<<<0, 1>>>>), charge |-> 1],
      [mol_graph |-> MolGraph(<<"H", "O", "H">>, <<<<0, 1>>, <<1, 2>>>>), charge |-> 0],
      [mol_graph |-> MolGraph(<<"H", "O", "H">>, <<<<0, 1>>, <<1, 2>>>>), charge |-> 1],
      [mol_graph |-> MolGraph(<<"O", "H", "H">>, <<<<0, 1>>, <<1, 2>>>>), charge |-> 1],
      [mol_graph |-> MolGraph(<<"O", "O", "O">>, <<<<0, 1>>, <<0, 2>>, <<1, 2>>>>),
       charge |-> 0],
      [mol_graph |-> MolGraph(<<"O", "O", "O">>, <<<<0, 1>>, <<1, 2>>>>), charge |-> 0],
      [mol_graph |-> MolGraph(<<"O", "O", "O">>, <<<<0, 1>>, <<1, 2>>>>), charge |-> 1] }

\* MoleculeEntry(..., entry_id=entry_id, mol_graph=...)
MoleculeEntry(entry_id, m) ==
    [entry_id |-> entry_id, mol_graph |-> m.mol_graph, charge |-> m.charge]

Atoms(g) == DOMAIN g.species

\* entry.graph
graph(entry) == entry.mol_graph

\* entry.formula: the composition, the number of atoms of each element.
formula(g) ==
    [el \in Elements |-> Cardinality({a \in Atoms(g) : g.species[a] = el})]

\* entry.bonds
bonds(entry) == entry.mol_graph.bonds

\* entry.num_bonds
num_bonds(entry) == Len(bonds(entry))

\* getattr(m, k) for k in keys = ["formula", "num_bonds", "charge"]
KeyOf(m, i) ==
    IF i = 1 THEN formula(graph(m)) ELSE IF i = 2 THEN num_bonds(m) ELSE m.charge

(***************************************************************************)
(* Python dicts keep the order in which their keys were first inserted: a  *)
(* dict is the sequence of its items.                                      *)
(***************************************************************************)
HasKey(d, k) == \E i \in 1..Len(d) : d[i].key = k

Get(d, k) == d[CHOOSE i \in 1..Len(d) : d[i].key = k].value

\* d[k] = v
Put(d, k, v) ==
    IF HasKey(d, k)
    THEN [i \in 1..Len(d) |-> IF d[i].key = k THEN [key |-> k, value |-> v] ELSE d[i]]
    ELSE Append(d, [key |-> k, value |-> v])

\* d.setdefault(k, default), the value
SetDefault(d, k, default) == IF HasKey(d, k) THEN Get(d, k) ELSE default

Keys(d) == [i \in 1..Len(d) |-> d[i].key]

FlatMap(Op(_), seq) ==
    LET f[i \in 0..Len(seq)] == IF i = 0 THEN <<>> ELSE f[i - 1] \o Op(seq[i])
    IN  f[Len(seq)]

Fold(Op(_, _), base, seq) ==
    LET f[i \in 0..Len(seq)] == IF i = 0 THEN base ELSE Op(f[i - 1], seq[i])
    IN  f[Len(seq)]

(***************************************************************************)
(* bucket_mol_entries and unbucket_mol_entries.                            *)
(***************************************************************************)
\* A leaf list that takes the new entry at its front.
LeafPrepend(leaf, m) == <<m>> \o leaf

\* b.setdefault(v, []).append(m)
LeafAppend(leaf, m) == Append(leaf, m)

\* The body of "for m in entries", for the three default keys.
BucketAdd(buckets, m) ==
    LET by_formula == SetDefault(buckets, KeyOf(m, 1), <<>>)
        by_bonds == SetDefault(by_formula, KeyOf(m, 2), <<>>)
        leaf == SetDefault(by_bonds, KeyOf(m, 3), <<>>)
    IN  Put(buckets, KeyOf(m, 1),
            Put(by_formula, KeyOf(m, 2),
                Put(by_bonds, KeyOf(m, 3), LeafAppend(leaf, m))))

bucket_mol_entries(list) == Fold(BucketAdd, <<>>, list)

\* The inner unbucket(d): a value at depth 0 is a leaf list, extended to
\* entries_list; above it the values are dicts, walked in item order.
RECURSIVE unbucket(_, _)
unbucket(d, depth) ==
    IF depth = 0 THEN d
    ELSE LET Inner(item) == unbucket(item.value, depth - 1)
         IN  FlatMap(Inner, d)

unbucket_mol_entries(d) == unbucket(d, 3)

(***************************************************************************)
(* The population: a list of up to MaxEntries entries, bucketed.           *)
(***************************************************************************)
EntryLists ==
    {[i \in 1..Len(q) |-> MoleculeEntry(i, q[i])] : q \in SeqsUpTo(MoleculePool, MaxEntries)}

InitNetwork ==
    /\ mol_entries \in EntryLists
    /\ entries = <<>>
    /\ net_pc = "new"
    /\ net_out = <<>>
    /\ AnalyzerOff
    /\ CollectOff
    /\ LoaderOff
    /\ ReactionOff
    /\ GraphOff
    /\ CategorizeOff
    /\ DocumentOff

Bucket ==
    /\ net_pc = "new"
    /\ entries' = bucket_mol_entries(mol_entries)
    /\ net_pc' = "bucketed"
    /\ UNCHANGED <<mol_entries, net_out, analyzerVars, collectVars, loaderVars, reactionVars,
                 graphVars, categorizeVars, documentVars>>

Unbucket ==
    /\ net_pc = "bucketed"
    /\ net_out' = unbucket_mol_entries(entries)
    /\ net_pc' = "unbucketed"
    /\ UNCHANGED <<mol_entries, entries, analyzerVars, collectVars, loaderVars, reactionVars,
                 graphVars, categorizeVars, documentVars>>

PositionIn(seq, x) == CHOOSE i \in 1..Len(seq) : seq[i] = x

SameBucket(a, b) == \A i \in 1..3 : KeyOf(a, i) = KeyOf(b, i)

\* C7: unbucket_mol_entries(bucket_mol_entries(xs)) is a permutation of xs
\* (the same entries with the same multiplicities) in which entries with the
\* same (formula, num_bonds, charge) keep their relative input order; for a
\* list of one entry it is the list itself.
C7_UnbucketPermutes ==
    net_pc = "unbucketed" =>
        /\ Len(net_out) = Len(mol_entries)
        /\ \A i \in 1..Len(mol_entries) :
               CountIn(net_out, mol_entries[i]) = CountIn(mol_entries, mol_entries[i])
        /\ \A i, j \in 1..Len(mol_entries) :
               (i < j /\ SameBucket(mol_entries[i], mol_entries[j]))
                   => PositionIn(net_out, mol_entries[i]) < PositionIn(net_out, mol_entries[j])
        /\ (Len(mol_entries) = 1 => net_out = mol_entries)

C7_Witness ==
    /\ net_pc = "unbucketed"
    /\ net_out # mol_entries
    /\ \E i, j \in 1..Len(mol_entries) :
           i < j /\ SameBucket(mol_entries[i], mol_entries[j])

(***************************************************************************)
(* The structure service: isomorphism of molecule graphs and the split of  *)
(* a molecule graph at a bond.                                             *)
(***************************************************************************)
Bonded(g, a, b) ==
    \E i \in 1..Len(g.bonds) : g.bonds[i] = <<a, b>> \/ g.bonds[i] = <<b, a>>

\* The node mappings GraphMatcher accepts: bijections of the atoms that keep
\* the "specie" of every atom and the bonds.
IsoMappings(g1, g2) ==
    IF Cardinality(Atoms(g1)) # Cardinality(Atoms(g2)) THEN {}
    ELSE {f \in [Atoms(g1) -> Atoms(g2)] :
              /\ \A a, b \in Atoms(g1) : a # b => f[a] # f[b]
              /\ \A a \in Atoms(g1) : g1.species[a] = g2.species[f[a]]
              /\ \A a, b \in Atoms(g1) : Bonded(g1, a, b) <=> Bonded(g2, f[a], f[b])}

\* is_isomorphic(g1, g2)[0]
is_isomorphic(g1, g2) == IsoMappings(g1, g2) # {}

\* break_edge(bond[0], bond[1], allow_reverse=True)
break_edge(g, bond) ==
    LET Kept(b) == b # bond /\ b # <<bond[2], bond[1]>>
    IN  [g EXCEPT !.bonds = SelectSeq(@, Kept)]

RECURSIVE Component(_, _)
Component(g, S) ==
    LET T == S \cup {b \in Atoms(g) : \E a \in S : Bonded(g, a, b)}
    IN  IF T = S THEN S ELSE Component(g, T)

\* nx.weakly_connected_components: one component per first unseen atom.
RECURSIVE ComponentsOf(_, _)
ComponentsOf(g, unseen) ==
    IF unseen = {} THEN <<>>
    ELSE LET v == CHOOSE a \in unseen : \A b \in unseen : a <= b
             c == Component(g, {v})
         IN  <<c>> \o ComponentsOf(g, unseen \ c)

weakly_connected_components(g) == ComponentsOf(g, Atoms(g))

is_weakly_connected(g) == Len(weakly_connected_components(g)) = 1

\* A fragment of get_disconnected_fragments: the atoms of the component in
\* ascending order, renumbered from 0, and the bonds among them.
Fragment(g, c) ==
    LET nodes == Ascending(c)
        index(a) == (CHOOSE i \in 1..Len(nodes) : nodes[i] = a) - 1
        Inside(b) == b[1] \in c /\ b[2] \in c
        kept == SelectSeq(g.bonds, Inside)
    IN  [species |-> [i \in 0..(Len(nodes) - 1) |-> g.species[nodes[i + 1]]],
         bonds |-> [i \in 1..Len(kept) |-> <<index(kept[i][1]), index(kept[i][2])>>]]

\* mol_graph.split_molecule_subgraphs(bonds, allow_reverse=True): the
\* fragments, or MolGraphSplitError when the broken graph is still connected.
split_molecule_subgraphs(g, broken_bonds) ==
    LET original == Fold(break_edge, g, broken_bonds)
        components == weakly_connected_components(original)
    IN  IF is_weakly_connected(original)
        THEN [error |-> "MolGraphSplitError", frags |-> <<>>]
        ELSE [error |-> None,
              frags |-> [i \in 1..Len(components) |-> Fragment(original, components[i])]]

(***************************************************************************)
(* RedoxReaction.generate.                                                 *)
(***************************************************************************)
\* cls(entry0, entry1, ...)
RedoxReaction(entry0, entry1) == [reactant |-> entry0, product |-> entry1]

\* Any two charges next to each other in the sorted list.
AnyStep(charge0, charge1) == TRUE

\* if charge1 - charge0 == 1
OneElectronStep(charge0, charge1) == charge1 - charge0 = 1

\* The two loops over entry0 and entry1 with the isomorphism test.
RedoxPairs(list0, list1) ==
    LET For0(entry0) ==
            LET For1(entry1) ==
                    IF is_isomorphic(graph(entry0), graph(entry1))
                    THEN <<RedoxReaction(entry0, entry1)>>
                    ELSE <<>>
            IN  FlatMap(For1, list1)
    IN  FlatMap(For0, list0)

\* charges = sorted(entries[formula][Nbonds].keys())
SortedCharges(by_charge) == Ascending(SeqSet(Keys(by_charge)))

\* The reactions of "for ii in range(len(charges) - 1)" at position ii.
RedoxStep(by_charge, ii) ==
    LET charges == SortedCharges(by_charge)
        charge0 == charges[ii]
        charge1 == charges[ii + 1]
    IN  IF OneElectronStep(charge0, charge1)
        THEN RedoxPairs(Get(by_charge, charge0), Get(by_charge, charge1))
        ELSE <<>>

\* The reactions of one entries[formula][Nbonds].
RedoxOfBonds(by_charge) ==
    LET charges == SortedCharges(by_charge)
        Step(ii) == RedoxStep(by_charge, ii)
    IN  IF Len(charges) > 1
        THEN FlatMap(Step, [ii \in 1..(Len(charges) - 1) |-> ii])
        ELSE <<>>

\* families[formula] after the body of "for Nbonds in entries[formula]":
\* every charge of this bond count gets a new list, then the reactions of
\* each step are appended under charge0.
RedoxFamilyOfBonds(family, by_charge) ==
    LET charges == SortedCharges(by_charge)
        Reset(fam, charge) == Put(fam, charge, <<>>)
        Extend(fam, ii) ==
            Put(fam, charges[ii], Get(fam, charges[ii]) \o RedoxStep(by_charge, ii))
        cleared == Fold(Reset, family, charges)
    IN  IF Len(charges) > 1
        THEN Fold(Extend, cleared, [ii \in 1..(Len(charges) - 1) |-> ii])
        ELSE cleared

RedoxReaction_generate(d) ==
    LET OfFormula(item) ==
            LET OfBonds(inner) == RedoxOfBonds(inner.value)
            IN  FlatMap(OfBonds, item.value)
        FamilyOfFormula(families, item) ==
            LET OfBonds(family, inner) == RedoxFamilyOfBonds(family, inner.value)
            IN  Put(families, item.key, Fold(OfBonds, <<>>, item.value))
    IN  [reactions |-> FlatMap(OfFormula, d),
         families |-> Fold(FamilyOfFormula, <<>>, d)]

GenerateRedox ==
    /\ net_pc = "bucketed"
    /\ net_out' = RedoxReaction_generate(entries)
    /\ net_pc' = "redox"
    /\ UNCHANGED <<mol_entries, entries, analyzerVars, collectVars, loaderVars, reactionVars,
                 graphVars, categorizeVars, documentVars>>

(***************************************************************************)
(* categorize, and the local bonding environment of a broken bond.         *)
(***************************************************************************)
\* extract_bond_environment(mg, bonds), then mg.graph.subgraph(indices): the
\* atoms of the bonds and the atoms bonded to them, with the bonds among
\* them; the atoms keep their indices.
extract_bond_environment(g, broken_bonds) ==
    LET ends == UNION {{broken_bonds[i][1], broken_bonds[i][2]} :
                           i \in 1..Len(broken_bonds)}
        indices == ends \cup {b \in Atoms(g) : \E a \in ends : Bonded(g, a, b)}
        Inside(b) == b[1] \in indices /\ b[2] \in indices
    IN  [species |-> [a \in indices |-> g.species[a]],
         bonds |-> SelectSeq(g.bonds, Inside)]

\* families[charge] = {label: [reaction]}, whatever families holds.
FamilyAddOverwrite(families, charge, label, reaction) ==
    Put(families, charge, <<[key |-> label, value |-> <<reaction>>]>>)

\* families[charge][label] with the reaction added.
FamilyAdd(families, charge, label, reaction) ==
    IF HasKey(families, charge)
    THEN IF HasKey(Get(families, charge), label)
         THEN Put(families, charge,
                  Put(Get(families, charge), label,
                      Append(Get(Get(families, charge), label), reaction)))
         ELSE Put(families, charge, Put(Get(families, charge), label, <<reaction>>))
    ELSE Put(families, charge, <<[key |-> label, value |-> <<reaction>>]>>)

\* categorize(reaction, families, templates, environment, charge), on the
\* pair st = [families, templates]; labels count from 0.
categorize(st, reaction, environment, charge) ==
    LET matches == {e \in 1..Len(st.templates) :
                        is_isomorphic(environment, st.templates[e])}
    IN  IF matches # {}
        THEN LET e == CHOOSE x \in matches : \A y \in matches : x <= y
             IN  [families |-> FamilyAdd(st.families, charge, e - 1, reaction),
                  templates |-> st.templates]
        ELSE [families |-> FamilyAdd(st.families, charge, Len(st.templates), reaction),
              templates |-> Append(st.templates, environment)]

(***************************************************************************)
(* IntermolecularReaction.generate.                                        *)
(***************************************************************************)
\* original.graph.subgraph(c): the atoms of the component under their own
\* indices, with the bonds among them.
subgraph(g, c) ==
    LET Inside(b) == b[1] \in c /\ b[2] \in c
    IN  [species |-> [a \in c |-> g.species[a]], bonds |-> SelectSeq(g.bonds, Inside)]

\* generate_atom_mapping_1_2(reactant, products, edges): the sub graphs in
\* the order of weakly_connected_components are zipped with the products;
\* a product not isomorphic to its sub graph fails the assertion "Cannot
\* obtain node mapping."; GM.mapping is one of the isomorphisms.
generate_atom_mapping_1_2(reactant, products, edges) ==
    LET original == Fold(break_edge, graph(reactant), edges)
        components == weakly_connected_components(original)
        n == IF Len(components) < Len(products) THEN Len(components) ELSE Len(products)
        node_mappings(i) == IsoMappings(graph(products[i]), subgraph(original, components[i]))
    IN  IF \E i \in 1..n : node_mappings(i) = {}
        THEN [raised |-> TRUE, reactant_atom_mapping |-> <<>>, products_atom_mapping |-> <<>>]
        ELSE [raised |-> FALSE,
              reactant_atom_mapping |-> [i \in Atoms(graph(reactant)) |-> i],
              products_atom_mapping |->
                  [i \in 1..n |-> CHOOSE f \in node_mappings(i) : TRUE]]

\* cls(entry, [entry0, entry1], reactant_atom_mapping=rct_mp,
\* products_atom_mapping=prdts_mp)
IntermolecularReaction(entry, product, mapping) ==
    [reactant |-> entry, product_0 |-> product[1], product_1 |-> product[2],
     rct_atom_mapping |-> <<mapping.reactant_atom_mapping>>,
     pro_atom_mapping |-> mapping.products_atom_mapping]

\* One pass of the innermost loop body: the atom mapping, then the reaction
\* and the sub graph of its bonds, unless the mapping raised.
MappedReaction(entry, product, edges, mapping) ==
    IF mapping.raised THEN <<[raised |-> TRUE]>>
    ELSE <<[raised |-> FALSE,
            reaction |-> IntermolecularReaction(entry, product, mapping),
            subg |-> extract_bond_environment(graph(entry), edges)]>>

\* An AssertionError leaves generate at the first mapping that fails.
AnyRaised(items) == \E i \in 1..Len(items) : items[i].raised

\* The second fragment given the charge of the first.
SameCharge(charge, charge0) == charge0

\* charge1 = charge - charge0
ProductCharge(charge, charge0) == charge - charge0

\* The first entry of the list isomorphic to the fragment, as a list of at
\* most one entry.
FirstIsomorphic(frag, list) ==
    LET hits == {i \in 1..Len(list) : is_isomorphic(frag, graph(list[i]))}
    IN  IF hits = {} THEN <<>>
        ELSE <<list[CHOOSE i \in hits : \A j \in hits : i <= j]>>

\* The body of "for charge0 in entries[formula0][Nbonds0]".
IntermolecularOfCharge(entry, d, charge, edge, frags, charge0) ==
    LET formula0 == formula(frags[1])
        Nbonds0 == Len(frags[1].bonds)
        formula1 == formula(frags[2])
        Nbonds1 == Len(frags[2].bonds)
        charge1 == ProductCharge(charge, charge0)
        by_charge1 == Get(Get(d, formula1), Nbonds1)
    IN  IF ~HasKey(by_charge1, charge1) THEN <<>>
        ELSE LET first0 == FirstIsomorphic(frags[1],
                                           Get(Get(Get(d, formula0), Nbonds0), charge0))
                 first1 == FirstIsomorphic(frags[2], Get(by_charge1, charge1))
             IN  IF first0 = <<>> \/ first1 = <<>> THEN <<>>
                 ELSE MappedReaction(entry, <<first0[1], first1[1]>>, <<edge>>,
                                     generate_atom_mapping_1_2(
                                         entry, <<first0[1], first1[1]>>, <<edge>>))

\* The body of "for edge in entry.bonds".
IntermolecularOfEdge(entry, d, charge, edge) ==
    LET split == split_molecule_subgraphs(graph(entry), <<edge>>)
        frags == split.frags
        formula0 == formula(frags[1])
        Nbonds0 == Len(frags[1].bonds)
        formula1 == formula(frags[2])
        Nbonds1 == Len(frags[2].bonds)
        OfCharge(charge0) == IntermolecularOfCharge(entry, d, charge, edge, frags, charge0)
    IN  IF split.error = "MolGraphSplitError" THEN <<>>
        ELSE IF \/ ~HasKey(d, formula0)
                \/ ~HasKey(d, formula1)
                \/ ~HasKey(Get(d, formula0), Nbonds0)
                \/ ~HasKey(Get(d, formula1), Nbonds1)
        THEN <<>>
        ELSE FlatMap(OfCharge, Keys(Get(Get(d, formula0), Nbonds0)))

\* _generate_one(entry, entries, charge, cls): the reactions, each with the
\* sub graph of its bond.
IntermolecularReaction_generate_one(entry, d, charge) ==
    LET OfEdge(edge) == IntermolecularOfEdge(entry, d, charge, edge)
    IN  FlatMap(OfEdge, bonds(entry))

\* The (charge, entry) pairs in the order of the loops of generate; bond
\* counts of 0 and less are passed over.
IntermolecularCandidates(d) ==
    LET OfFormula(item) ==
            LET OfBonds(inner) ==
                    LET OfCharge(leaf) ==
                            [i \in 1..Len(leaf.value) |->
                                [charge |-> leaf.key, entry |-> leaf.value[i]]]
                    IN  IF inner.key <= 0 THEN <<>> ELSE FlatMap(OfCharge, inner.value)
            IN  FlatMap(OfBonds, item.value)
    IN  FlatMap(OfFormula, d)

IntermolecularReaction_generate(d) ==
    LET Rxns(c) == IntermolecularReaction_generate_one(c.entry, d, c.charge)
        OfCandidate(st, c) ==
            LET Categorize(fam, rg) == categorize(fam, rg.reaction, rg.subg, c.charge)
                classified == Fold(Categorize,
                                   [families |-> st.families, templates |-> st.templates],
                                   Rxns(c))
            IN  [reactions |-> st.reactions \o [i \in 1..Len(Rxns(c)) |-> Rxns(c)[i].reaction],
                 families |-> classified.families,
                 templates |-> classified.templates]
        done == Fold(OfCandidate,
                     [reactions |-> <<>>, families |-> <<>>, templates |-> <<>>],
                     IntermolecularCandidates(d))
    IN  IF AnyRaised(FlatMap(Rxns, IntermolecularCandidates(d)))
        THEN [raised |-> "Cannot obtain node mapping.",
              reactions |-> <<>>, families |-> <<>>]
        ELSE [raised |-> None, reactions |-> done.reactions, families |-> done.families]

GenerateIntermolecular ==
    /\ net_pc = "bucketed"
    /\ net_out' = IntermolecularReaction_generate(entries)
    /\ net_pc' = IF net_out'.raised = None THEN "intermolecular" ELSE "AssertionError"
    /\ UNCHANGED <<mol_entries, entries, analyzerVars, collectVars, loaderVars, reactionVars,
                 graphVars, categorizeVars, documentVars>>

NextNetwork == Bucket \/ Unbucket \/ GenerateRedox \/ GenerateIntermolecular

SpecNetwork == InitNetwork /\ [][NextNetwork]_vars

(***************************************************************************)
(* Claims about the enumeration.                                           *)
(***************************************************************************)
\* The ordered pairs of positions of the entry list that qualify as a redox
\* pair.
RedoxQualified ==
    {pr \in (1..Len(mol_entries)) \X (1..Len(mol_entries)) :
        LET e0 == mol_entries[pr[1]]
            e1 == mol_entries[pr[2]]
        IN  /\ formula(graph(e0)) = formula(graph(e1))
            /\ num_bonds(e0) = num_bonds(e1)
            /\ e1.charge = e0.charge + 1
            /\ is_isomorphic(graph(e0), graph(e1))}

\* C8: RedoxReaction.generate returns exactly one reaction for each ordered
\* pair (e0, e1) of bucketed entries of the same formula and bond count with
\* charge(e1) = charge(e0) + 1 and isomorphic graphs, and no other reaction:
\* every returned reaction changes the charge by exactly 1 and keeps the
\* formula.
C8_RedoxExactlyQualified ==
    net_pc = "redox" =>
        /\ \A pr \in RedoxQualified :
               CountIn(net_out.reactions,
                       RedoxReaction(mol_entries[pr[1]], mol_entries[pr[2]])) = 1
        /\ Len(net_out.reactions) = Cardinality(RedoxQualified)
        /\ \A i \in 1..Len(net_out.reactions) :
               LET r == net_out.reactions[i]
               IN  /\ r.product.charge - r.reactant.charge \in {1, -1}
                   /\ formula(graph(r.product)) = formula(graph(r.reactant))

\* One reaction, beside an entry of the reactant's formula and bond count
\* and of the product's charge that is not isomorphic to the reactant.
C8_Witness ==
    /\ net_pc = "redox"
    /\ Len(net_out.reactions) = 1
    /\ \E i \in 1..Len(mol_entries) :
           LET e0 == net_out.reactions[1].reactant
               e1 == mol_entries[i]
           IN  /\ formula(graph(e0)) = formula(graph(e1))
               /\ num_bonds(e0) = num_bonds(e1)
               /\ e1.charge = e0.charge + 1
               /\ ~is_isomorphic(graph(e0), graph(e1))

NoneNum == <<>>

Num(x) == <<x>>

Val(o) == o[1]

Quantity(Ha, kcal, TS, eV) == [Ha |-> Ha, kcal |-> kcal, TS |-> TS, eV |-> eV]

QAdd(a, b) == Quantity(a.Ha + b.Ha, a.kcal + b.kcal, a.TS + b.TS, a.eV + b.eV)

QSub(a, b) == Quantity(a.Ha - b.Ha, a.kcal - b.kcal, a.TS - b.TS, a.eV - b.eV)

QNeg(a) == Quantity(-a.Ha, -a.kcal, -a.TS, -a.eV)

QElectron(n) == Quantity(0, 0, 0, n)

RECURSIVE QSum(_)
QSum(qs) == IF qs = <<>> THEN Quantity(0, 0, 0, 0) ELSE QAdd(Head(qs), QSum(Tail(qs)))

RECURSIVE Sum(_)
Sum(ns) == IF ns = <<>> THEN 0 ELSE Head(ns) + Sum(Tail(ns))

\* 298.15 K, in units of 0.01 K
ReferenceTemperature == 29815

Temperatures == {ReferenceTemperature, 30000}

\* mol_free_energy(energy, enthalpy, entropy, temp), as get_free_energy:
\* None unless the enthalpy and the entropy are both given.
mol_free_energy(energy, enthalpy, entropy, temp) ==
    IF enthalpy # NoneNum /\ entropy # NoneNum
    THEN Num(Quantity(Val(energy), Val(enthalpy), temp * Val(entropy), 0))
    ELSE NoneNum

\* The entries a reaction is built from: entry_id, parameters["ind"] and the
\* energy attributes.
ThermoEntries ==
    { [entry_id |-> "a", ind |-> 0,
       energy |-> Num(1), enthalpy |-> Num(2), entropy |-> Num(3), charge |-> 0],
      [entry_id |-> "b", ind |-> 1,
       energy |-> Num(2), enthalpy |-> Num(1), entropy |-> Num(1), charge |-> 1],
      [entry_id |-> "c", ind |-> 2,
       energy |-> Num(0), enthalpy |-> Num(0), entropy |-> Num(2), charge |-> -1],
      [entry_id |-> "d", ind |-> 3,
       energy |-> Num(1), enthalpy |-> NoneNum, entropy |-> Num(3), charge |-> 0],
      [entry_id |-> "e", ind |-> 4,
       energy |-> Num(2), enthalpy |-> Num(1), entropy |-> NoneNum, charge |-> 1] }

\* The free energy of entry i of a side at the temperature.
EntryFreeEnergy(side, i, temperature) ==
    mol_free_energy(side[i].energy, side[i].enthalpy, side[i].entropy, temperature)

\* "if temperature is None or temperature == 298.15" with both base values
\* set: the stored values are taken.
BaseIsSet(r) == r.base_free_energy_A # NoneNum /\ r.base_free_energy_B # NoneNum

TakeBase(r) ==
    [r EXCEPT !.free_energy_A = r.base_free_energy_A,
              !.free_energy_B = r.base_free_energy_B]

\* The assignments of free_energy_A and free_energy_B, with the base values
\* stored at every temperature.
StoreFreeEnergyAlways(r, A, B, set_base) ==
    [r EXCEPT !.free_energy_A = A,
              !.free_energy_B = B,
              !.base_free_energy_A = A,
              !.base_free_energy_B = B]

\* The assignments of free_energy_A and free_energy_B, then "if set_base".
StoreFreeEnergy(r, A, B, set_base) ==
    [r EXCEPT !.free_energy_A = A,
              !.free_energy_B = B,
              !.base_free_energy_A = IF set_base THEN A ELSE @,
              !.base_free_energy_B = IF set_base THEN B ELSE @]

(***************************************************************************)
(* energy() and free_energy(temperature) of the five reaction classes.  A  *)
(* call gives the reaction after it and whether it raised.                 *)
(***************************************************************************)
Returned(r) == [r |-> r, raised |-> FALSE]

Raised(r) == [r |-> r, raised |-> TRUE]

\* RedoxReaction.energy and IntramolSingleBondChangeReaction.energy
OneToOne_energy(r) ==
    LET rct_energy == r.reactants[1].energy
        pro_energy == r.products[1].energy
    IN  IF pro_energy # NoneNum /\ rct_energy # NoneNum
        THEN Returned([r EXCEPT !.energy_A = Num(Val(pro_energy) - Val(rct_energy)),
                                !.energy_B = Num(Val(rct_energy) - Val(pro_energy))])
        ELSE Returned([r EXCEPT !.energy_A = NoneNum, !.energy_B = NoneNum])

\* IntermolecularReaction.energy and CoordinationBondChangeReaction.energy
OneToTwo_energy(r) ==
    LET rct_energy == r.reactants[1].energy
        pro0_energy == r.products[1].energy
        pro1_energy == r.products[2].energy
    IN  IF pro1_energy # NoneNum /\ pro0_energy # NoneNum /\ rct_energy # NoneNum
        THEN Returned([r EXCEPT
                 !.energy_A = Num(Val(pro0_energy) + Val(pro1_energy) - Val(rct_energy)),
                 !.energy_B = Num(Val(rct_energy) - Val(pro0_energy) - Val(pro1_energy))])
        ELSE Returned([r EXCEPT !.energy_A = NoneNum, !.energy_B = NoneNum])

\* ConcertedReaction.energy: the sums are taken when every energy is None
\* (np.sum of None values raises TypeError), and energy_A and energy_B are
\* None otherwise.
ConcertedReaction_energy(r) ==
    IF /\ \A i \in 1..Len(r.reactants) : r.reactants[i].energy = NoneNum
       /\ \A i \in 1..Len(r.products) : r.products[i].energy = NoneNum
    THEN Raised(r)
    ELSE Returned([r EXCEPT !.energy_A = NoneNum, !.energy_B = NoneNum])

energy(r) ==
    IF r.archetype \in {"Redox", "Intramolecular"} THEN OneToOne_energy(r)
    ELSE IF r.archetype \in {"Intermolecular", "Coordination"} THEN OneToTwo_energy(r)
    ELSE ConcertedReaction_energy(r)

RedoxReaction_free_energy(r, temperature) ==
    IF temperature = ReferenceTemperature /\ BaseIsSet(r) THEN Returned(TakeBase(r))
    ELSE
    LET set_base == temperature = ReferenceTemperature
        rct_free_energy == EntryFreeEnergy(r.reactants, 1, temperature)
        pro_free_energy == EntryFreeEnergy(r.products, 1, temperature)
        A == QSub(Val(pro_free_energy), Val(rct_free_energy))
        B == QSub(Val(rct_free_energy), Val(pro_free_energy))
        e == QElectron(Val(r.electron_free_energy))
    IN  IF rct_free_energy # NoneNum /\ pro_free_energy # NoneNum
        THEN IF r.electron_free_energy = NoneNum
             THEN \* "+= electron_free_energy" with None: TypeError, after the
                  \* two differences were assigned
                  Raised([r EXCEPT !.free_energy_A = Num(A), !.free_energy_B = Num(B)])
             ELSE IF r.rxn_type_A = "One electron reduction"
             THEN Returned(StoreFreeEnergy(r, Num(QAdd(A, QNeg(e))), Num(QAdd(B, e)),
                                           set_base))
             ELSE Returned(StoreFreeEnergy(r, Num(QAdd(A, e)), Num(QAdd(B, QNeg(e))),
                                           set_base))
        ELSE Returned(StoreFreeEnergy(r, NoneNum, NoneNum, set_base))

IntramolSingleBondChangeReaction_free_energy(r, temperature) ==
    IF temperature = ReferenceTemperature /\ BaseIsSet(r) THEN Returned(TakeBase(r))
    ELSE
    LET set_base == temperature = ReferenceTemperature
        rct_free_energy == EntryFreeEnergy(r.reactants, 1, temperature)
        pro_free_energy == EntryFreeEnergy(r.products, 1, temperature)
    IN  IF rct_free_energy # NoneNum /\ pro_free_energy # NoneNum
        THEN Returned(StoreFreeEnergy(r,
                 Num(QSub(Val(pro_free_energy), Val(rct_free_energy))),
                 Num(QSub(Val(rct_free_energy), Val(pro_free_energy))), set_base))
        ELSE Returned(StoreFreeEnergy(r, NoneNum, NoneNum, set_base))

\* IntermolecularReaction.free_energy and
\* CoordinationBondChangeReaction.free_energy
OneToTwo_free_energy(r, temperature) ==
    IF temperature = ReferenceTemperature /\ BaseIsSet(r) THEN Returned(TakeBase(r))
    ELSE
    LET set_base == temperature = ReferenceTemperature
        rct_free_energy == EntryFreeEnergy(r.reactants, 1, temperature)
        pro0_free_energy == EntryFreeEnergy(r.products, 1, temperature)
        pro1_free_energy == EntryFreeEnergy(r.products, 2, temperature)
    IN  IF /\ rct_free_energy # NoneNum
           /\ pro0_free_energy # NoneNum
           /\ pro1_free_energy # NoneNum
        THEN Returned(StoreFreeEnergy(r,
                 Num(QSub(QAdd(Val(pro0_free_energy), Val(pro1_free_energy)),
                          Val(rct_free_energy))),
                 Num(QSub(QSub(Val(rct_free_energy), Val(pro0_free_energy)),
                          Val(pro1_free_energy))),
                 set_base))
        ELSE Returned(StoreFreeEnergy(r, NoneNum, NoneNum, set_base))

\* ConcertedReaction.free_energy: the stored base values are taken and the
\* computation goes on all the same (no return).
ConcertedReaction_free_energy(r, temperature) ==
    LET set_base == temperature = ReferenceTemperature /\ ~BaseIsSet(r)
        electron_free == IF r.electron_free_energy = NoneNum THEN 0
                         ELSE Val(r.electron_free_energy)
        rct_free_energies == [i \in 1..Len(r.reactants) |->
                                 EntryFreeEnergy(r.reactants, i, temperature)]
        pro_free_energies == [i \in 1..Len(r.products) |->
                                 EntryFreeEnergy(r.products, i, temperature)]
        cond_rct == \A i \in 1..Len(r.reactants) : rct_free_energies[i] # NoneNum
        cond_pro == \A i \in 1..Len(r.products) : pro_free_energies[i] # NoneNum
        reactant_charge == Sum([i \in 1..Len(r.reactants) |-> r.reactants[i].charge])
        product_charge == Sum([i \in 1..Len(r.products) |-> r.products[i].charge])
        reactant_free_energy ==
            QSum([i \in 1..Len(r.reactants) |-> Val(rct_free_energies[i])])
        product_free_energy ==
            QSum([i \in 1..Len(r.products) |-> Val(pro_free_energies[i])])
        total_charge_change == product_charge - reactant_charge
    IN  IF cond_rct /\ cond_pro
        THEN Returned(StoreFreeEnergy(r,
                 Num(QAdd(QSub(product_free_energy, reactant_free_energy),
                          QElectron(total_charge_change * electron_free))),
                 Num(QSub(QSub(reactant_free_energy, product_free_energy),
                          QElectron(total_charge_change * electron_free))),
                 set_base))
        ELSE Returned(StoreFreeEnergy(r, NoneNum, NoneNum, set_base))

free_energy(r, temperature) ==
    IF r.archetype = "Redox" THEN RedoxReaction_free_energy(r, temperature)
    ELSE IF r.archetype = "Intramolecular"
    THEN IntramolSingleBondChangeReaction_free_energy(r, temperature)
    ELSE IF r.archetype \in {"Intermolecular", "Coordination"}
    THEN OneToTwo_free_energy(r, temperature)
    ELSE ConcertedReaction_free_energy(r, temperature)

(***************************************************************************)
(* A reaction object: constructed from its entries, then asked for its     *)
(* energies.                                                               *)
(***************************************************************************)
Archetypes == {"Redox", "Intramolecular", "Intermolecular", "Coordination", "Concerted"}

\* reaction_type() of each class, the forward label.
rxn_type_A(archetype, reactants, products) ==
    IF archetype = "Redox"
    THEN IF products[1].charge < reactants[1].charge
         THEN "One electron reduction" ELSE "One electron oxidation"
    ELSE IF archetype = "Intramolecular"
    THEN IF products[1].charge < reactants[1].charge
         THEN "Intramolecular single bond breakage"
         ELSE "Intramolecular single bond formation"
    ELSE IF archetype = "Intermolecular"
    THEN "Molecular decomposition breaking one bond A -> B+C"
    ELSE IF archetype = "Coordination" THEN "Coordination bond breaking AM -> A+M"
    ELSE "Concerted"

\* reaction_type() of each class, the reverse label.
rxn_type_B(archetype, reactants, products) ==
    IF archetype = "Redox"
    THEN IF products[1].charge < reactants[1].charge
         THEN "One electron oxidation" ELSE "One electron reduction"
    ELSE IF archetype = "Intramolecular"
    THEN IF products[1].charge < reactants[1].charge
         THEN "Intramolecular single bond formation"
         ELSE "Intramolecular single bond breakage"
    ELSE IF archetype = "Intermolecular"
    THEN "Molecular formation from one new bond A+B -> C"
    ELSE IF archetype = "Coordination" THEN "Coordination bond forming A+M -> AM"
    ELSE "Concerted"

\* __init__ of each class: Reaction.__init__ stores the entries, their ids
\* and their indices; the entries' attributes are stored, then
\* reaction_type() and energy() are called, the base free energies are set
\* to None and free_energy() is called (by RedoxReaction only when it has an
\* electron_free_energy, by ConcertedReaction not at all).  free_energy_A
\* and free_energy_B are None until a call sets them.
Reaction_init(archetype, reactants, products, electron_free_energy) ==
    LET attrs == [archetype |-> archetype,
                  reactants |-> reactants,
                  products |-> products,
                  rct_ids |-> [i \in 1..Len(reactants) |-> reactants[i].entry_id],
                  pro_ids |-> [i \in 1..Len(products) |-> products[i].entry_id],
                  rct_indices |-> [i \in 1..Len(reactants) |-> reactants[i].ind],
                  pro_indices |-> [i \in 1..Len(products) |-> products[i].ind],
                  electron_free_energy |-> electron_free_energy,
                  rxn_type_A |-> rxn_type_A(archetype, reactants, products),
                  rxn_type_B |-> rxn_type_B(archetype, reactants, products),
                  energy_A |-> NoneNum,
                  energy_B |-> NoneNum,
                  free_energy_A |-> NoneNum,
                  free_energy_B |-> NoneNum,
                  base_free_energy_A |-> NoneNum,
                  base_free_energy_B |-> NoneNum]
        with_energy == energy(attrs).r
    IN  IF archetype = "Concerted" THEN with_energy
        ELSE IF archetype = "Redox" /\ electron_free_energy = NoneNum THEN with_energy
        ELSE free_energy(with_energy, ReferenceTemperature).r

\* The numbers of reactants and of products of each class.
Shapes(archetype) ==
    IF archetype \in {"Redox", "Intramolecular"} THEN {<<1, 1>>}
    ELSE IF archetype \in {"Intermolecular", "Coordination"} THEN {<<1, 2>>}
    ELSE {<<1, 1>>, <<1, 2>>, <<2, 1>>, <<2, 2>>}

ElectronFreeEnergies(archetype) ==
    IF archetype \in {"Redox", "Concerted"} THEN {NoneNum, Num(1)} ELSE {NoneNum}

InitReaction ==
    /\ \E archetype \in Archetypes :
           \E shape \in Shapes(archetype) :
               \E reactants \in [1..shape[1] -> ThermoEntries] :
                   \E products \in [1..shape[2] -> ThermoEntries] :
                       \E e \in ElectronFreeEnergies(archetype) :
                           rxn = Reaction_init(archetype, reactants, products, e)
    /\ rxn_pc = "constructed"
    /\ AnalyzerOff
    /\ CollectOff
    /\ LoaderOff
    /\ NetworkOff
    /\ GraphOff
    /\ CategorizeOff
    /\ DocumentOff

FreeEnergy(temperature) ==
    /\ rxn_pc # "off"
    /\ LET call == free_energy(rxn, temperature)
       IN  /\ rxn' = call.r
           /\ rxn_pc' = IF call.raised THEN "TypeError" ELSE "free_energy"
    /\ UNCHANGED <<analyzerVars, collectVars, loaderVars, networkVars,
                 graphVars, categorizeVars, documentVars>>

Energy ==
    /\ rxn_pc # "off"
    /\ LET call == energy(rxn)
       IN  /\ rxn' = call.r
           /\ rxn_pc' = IF call.raised THEN "TypeError" ELSE "energy"
    /\ UNCHANGED <<analyzerVars, collectVars, loaderVars, networkVars,
                 graphVars, categorizeVars, documentVars>>

NextReaction == (\E temperature \in Temperatures : FreeEnergy(temperature)) \/ Energy

SpecReaction == InitReaction /\ [][NextReaction]_vars

\* Every entry of the reaction carries an energy, an enthalpy and an entropy.
AllThermo(r) ==
    \A side \in {r.reactants, r.products} :
        \A i \in 1..Len(side) :
            /\ side[i].energy # NoneNum
            /\ side[i].enthalpy # NoneNum
            /\ side[i].entropy # NoneNum

Antisymmetric(A, B) == A # NoneNum /\ B # NoneNum /\ Val(A) = -Val(B)

QAntisymmetric(A, B) == A # NoneNum /\ B # NoneNum /\ Val(A) = QNeg(Val(B))

\* C10: for a reaction of any of the five classes whose entries all carry
\* energies, enthalpies and entropies, after free_energy(T) has returned, for
\* any temperature T: energy_A = -energy_B and free_energy_A =
\* -free_energy_B, and all four are numbers.
C10_EnergiesAntisymmetric ==
    (rxn_pc = "free_energy" /\ AllThermo(rxn))
        => /\ Antisymmetric(rxn.energy_A, rxn.energy_B)
           /\ QAntisymmetric(rxn.free_energy_A, rxn.free_energy_B)

\* What the code keeps of C10: the free energies of all five classes, and
\* the energies of all but ConcertedReaction.
C10_ExceptConcertedEnergy ==
    (rxn_pc = "free_energy" /\ AllThermo(rxn))
        => /\ rxn.archetype # "Concerted" => Antisymmetric(rxn.energy_A, rxn.energy_B)
           /\ QAntisymmetric(rxn.free_energy_A, rxn.free_energy_B)

\* A str that keeps only the parity of the index.
StrTruncated(i) == ToString(i % 2)

(***************************************************************************)
(* The bipartite graph of a reaction.  An nx.DiGraph is its node dict and  *)
(* its edge dict, both in insertion order; a node is an int (a species     *)
(* index) or a str (a composite node name), and the two never compare      *)
(* equal.                                                                  *)
(***************************************************************************)
str(i) == ToString(i)

\* An index that is made a string node.
SpeciesNodeStr(i) == [type |-> "str", repr |-> str(i)]

SpeciesNode(i) == [type |-> "int", repr |-> str(i)]

ReactionNode(name) == [type |-> "str", repr |-> name]

\* graph.add_node(n, **attr), as the call it is
add_node(n, attr) == [call |-> "add_node", u |-> n, v |-> n, attr |-> attr]

\* graph.add_edge(u, v, **attr), as the call it is
add_edge(u, v, attr) == [call |-> "add_edge", u |-> u, v |-> v, attr |-> attr]

\* A dict after the updates d[key].update(attr) made in order: the keys in
\* the order they first came, each attribute with the value it was last
\* given.
DictOf(updates) ==
    LET First(i) == \A j \in 1..(i - 1) : updates[j].key # updates[i].key
        positions == SelectSeq([i \in 1..Len(updates) |-> i], First)
        Merged(key) ==
            LET mine == {i \in 1..Len(updates) : updates[i].key = key}
                names == UNION {DOMAIN updates[i].attr : i \in mine}
                Last(name) == CHOOSE i \in mine :
                                  /\ name \in DOMAIN updates[i].attr
                                  /\ \A j \in mine :
                                         name \in DOMAIN updates[j].attr => j <= i
            IN  [name \in names |-> updates[Last(name)].attr[name]]
    IN  [k \in 1..Len(positions) |->
            [key |-> updates[positions[k]].key,
             value |-> Merged(updates[positions[k]].key)]]

\* The nx.DiGraph the calls leave, made on an empty graph in order: add_node
\* sets the attributes of its node, add_edge adds its two nodes when they
\* are new and sets the attributes of its edge.
DiGraph(calls) ==
    LET IsEdge(c) == c.call = "add_edge"
        edge_calls == SelectSeq(calls, IsEdge)
        Touched(i) ==
            LET c == calls[(i + 1) \div 2]
            IN  IF c.call = "add_node" THEN [key |-> c.u, attr |-> c.attr]
                ELSE [key |-> IF i % 2 = 1 THEN c.u ELSE c.v, attr |-> <<>>]
    IN  [nodes |-> DictOf([i \in 1..(2 * Len(calls)) |-> Touched(i)]),
         edges |-> DictOf([i \in 1..Len(edge_calls) |->
                              [key |-> <<edge_calls[i].u, edge_calls[i].v>>,
                               attr |-> edge_calls[i].attr]])]

\* The floats of the edge attributes: a literal, or a cost function at a
\* free energy.
Float(n) == [fn |-> "float", at |-> QElectron(n)]

\* The sign test of rexp: the Hartree term decides, then the eV term, then
\* the enthalpy against the entropy term (exact while the smaller terms stay
\* below one unit of the larger, as they do for the entries here).
NonPositive(q) ==
    IF q.Ha # 0 THEN q.Ha < 0
    ELSE IF q.eV # 0 THEN q.eV < 0
    ELSE q.kcal * 100000 - q.TS <= 0

\* float(np.log(1 + (273.0 / 500.0) * np.exp(free_energy)))
softplus(dG) == [fn |-> "log(1 + (273.0 / 500.0) * exp)", at |-> Val(dG)]

\* float(np.exp(free_energy))
exponent(dG) == [fn |-> "exp", at |-> Val(dG)]

\* np.exp(d) if free_energy <= 0, np.exp(38.94 * d) otherwise, in float128
rexp(dG) ==
    IF NonPositive(Val(dG))
    THEN [fn |-> "float128 exp(d)", at |-> Val(dG)]
    ELSE [fn |-> "float128 exp(38.94 * d)", at |-> Val(dG)]

\* The attributes of the edge from an anchor into its composite node, with
\* the free energy each cost function is given.
InEdge(for_softplus, for_exponent, for_rexp) ==
    [softplus |-> softplus(for_softplus),
     exponent |-> exponent(for_exponent),
     rexp |-> rexp(for_rexp),
     weight |-> Float(1)]

\* softplus=0.0, exponent=0.0, rexp=0.0, weight=1.0
OutEdge == [softplus |-> Float(0), exponent |-> Float(0), rexp |-> Float(0),
            weight |-> Float(1)]

\* softplus=0.0, exponent=0.0, weight=1.0
OutEdgeNoRexp == [softplus |-> Float(0), exponent |-> Float(0), weight |-> Float(1)]

\* The attributes of a composite node.
NodeAttr(rxn_type, energy_AB, free_energy_AB, entry_ids) ==
    [rxn_type |-> rxn_type, bipartite |-> 1, energy |-> energy_AB,
     free_energy |-> free_energy_AB, entry_ids |-> entry_ids]

\* sep.join(strs)
RECURSIVE Join(_, _)
Join(sep, strs) ==
    IF Len(strs) = 0 THEN ""
    ELSE IF Len(strs) = 1 THEN strs[1]
    ELSE strs[1] \o sep \o Join(sep, Tail(strs))

\* seq without its element at position i
Without(seq, i) == [j \in 1..(Len(seq) - 1) |-> IF j < i THEN seq[j] ELSE seq[j + 1]]

\* itertools.permutations(seq), in its order
RECURSIVE permutations(_)
permutations(seq) ==
    IF Len(seq) = 0 THEN << <<>> >>
    ELSE LET From(i) ==
                 LET rest == permutations(Without(seq, i))
                 IN  [k \in 1..Len(rest) |-> <<seq[i]>> \o rest[k]]
             all[i \in 0..Len(seq)] == IF i = 0 THEN <<>> ELSE all[i - 1] \o From(i)
         IN  all[Len(seq)]

\* np.argsort(xs): the positions of xs in ascending order of value, equal
\* values in order of position.
argsort(xs) ==
    LET Before(i, j) == xs[i] < xs[j] \/ (xs[i] = xs[j] /\ i < j)
        Rank(i) == 1 + Cardinality({j \in 1..Len(xs) : Before(j, i)})
    IN  [k \in 1..Len(xs) |-> CHOOSE i \in 1..Len(xs) : Rank(i) = k]

\* [str(x) for x in xs]
Strs(xs) == [i \in 1..Len(xs) |-> str(xs[i])]

\* [xs[i] for i in positions]
Take(xs, positions) == [k \in 1..Len(positions) |-> xs[positions[k]]]

\* What a graph builder did: the reaction after it, how it ended ("graph",
\* "None", "ValueError", "TypeError") and the graph it returned.
GraphReturned(r, G) == [r |-> r, outcome |-> "graph", graph |-> G]

GraphRaised(r, error) == [r |-> r, outcome |-> error, graph |-> <<>>]

\* reaction.free_energy() raised, or the free energies it set are None and
\* the first softplus(free_energy_A) raises TypeError.
NoWeights(call) == call.raised \/ call.r.free_energy_A = NoneNum

\* A direction-blind naming of the 1-1 nodes: the lower index first.
node_names_1_1_sorted(rct_indices, pro_indices) ==
    LET lo == IF rct_indices[1] <= pro_indices[1] THEN rct_indices[1] ELSE pro_indices[1]
        hi == IF rct_indices[1] <= pro_indices[1] THEN pro_indices[1] ELSE rct_indices[1]
    IN  [A |-> <<str(lo) \o "," \o str(hi)>>, B |-> <<str(lo) \o "," \o str(hi)>>]

\* The composite node names of each builder: A the names of the forward
\* nodes, in the order of the reactants they are entered from, B the names
\* of the reverse nodes, in the order of the products.
node_names_1_1(rct_indices, pro_indices) ==
    LET rct_ind == rct_indices[1]
        pro0_ind == pro_indices[1]
    IN  [A |-> <<str(rct_ind) \o "," \o str(pro0_ind)>>,
         B |-> <<str(pro0_ind) \o "," \o str(rct_ind)>>]

\* The body of graph_rep_1_1, call being what reaction.free_energy() did.
graph_rep_1_1_body(reaction, call) ==
    LET rct_ind == reaction.rct_indices[1]
        pro0_ind == reaction.pro_indices[1]
        names == node_names_1_1(reaction.rct_indices, reaction.pro_indices)
        node_name_A == ReactionNode(names.A[1])
        node_name_B == ReactionNode(names.B[1])
        r == call.r
        entry_ids_A == r.rct_ids[1] \o "," \o r.pro_ids[1]
        entry_ids_B == r.pro_ids[1] \o "," \o r.rct_ids[1]
        calls ==
            << add_node(node_name_A,
                        NodeAttr(r.rxn_type_A, r.energy_A, r.free_energy_A, entry_ids_A)),
               add_edge(SpeciesNode(rct_ind), node_name_A,
                        InEdge(r.free_energy_A, r.free_energy_A, r.free_energy_A)),
               add_edge(node_name_A, SpeciesNode(pro0_ind), OutEdge),
               add_node(node_name_B,
                        NodeAttr(r.rxn_type_B, r.energy_B, r.free_energy_B, entry_ids_B)),
               add_edge(SpeciesNode(pro0_ind), node_name_B,
                        InEdge(r.free_energy_B, r.free_energy_B, r.free_energy_B)),
               add_edge(node_name_B, SpeciesNode(rct_ind), OutEdge) >>
    IN  IF NoWeights(call) THEN GraphRaised(r, "TypeError")
        ELSE GraphReturned(r, DiGraph(calls))

graph_rep_1_1(reaction) ==
    IF Len(reaction.rct_indices) # 1 \/ Len(reaction.pro_indices) # 1
    THEN GraphRaised(reaction, "ValueError")
    ELSE graph_rep_1_1_body(reaction, free_energy(reaction, ReferenceTemperature))

\* for index in indices: graph.add_edge(node, int(index), softplus=0.0, ...)
AddOutEdges(node, indices) ==
    [k \in 1..Len(indices) |-> add_edge(node, SpeciesNode(indices[k]), OutEdge)]

\* The names of the permutations of the sequence, without the permuting:
\* every composite node of a side gets the name of the first ordering.
NamesUnpermuted(xs) == [k \in 1..Len(permutations(xs)) |-> Join("+PR_", Strs(xs))]

\* ["+PR_".join([str(index) for index in permutation])
\*      for permutation in itertools.permutations(xs)], xs being strings
NamesPR(xs) ==
    LET perms == permutations(xs)
    IN  [k \in 1..Len(perms) |-> Join("+PR_", perms[k])]

node_names_1_2(rct_indices, pro_indices) ==
    LET rct_ind == rct_indices[1]
        pro_sorted_indices == argsort(pro_indices)
        two_mol_name == Join("+", Strs(Take(pro_indices, pro_sorted_indices)))
        two_mol_names == NamesPR(Strs(pro_indices))
        product_node_names ==
            [k \in 1..Len(two_mol_names) |-> two_mol_names[k] \o "," \o str(rct_ind)]
        node_name_A == str(rct_ind) \o "," \o two_mol_name
    IN  [A |-> <<node_name_A>>, B |-> product_node_names]

\* The body of graph_rep_1_2, call being what reaction.free_energy() did.
graph_rep_1_2_body(reaction, call) ==
    LET rct_ind == reaction.rct_indices[1]
        pro0_ind == reaction.pro_indices[1]
        pro1_ind == reaction.pro_indices[2]
        rct_id == reaction.rct_ids[1]
        pro_sorted_indices == argsort(reaction.pro_indices)
        two_mol_name_entry_ids == Join("+", Take(reaction.pro_ids, pro_sorted_indices))
        names == node_names_1_2(reaction.rct_indices, reaction.pro_indices)
        product_node_names == [k \in 1..Len(names.B) |-> ReactionNode(names.B[k])]
        node_name_A == ReactionNode(names.A[1])
        two_mol_entry_ids == NamesPR(reaction.pro_ids)
        product_entry_ids_name ==
            [k \in 1..Len(two_mol_entry_ids) |-> two_mol_entry_ids[k] \o "," \o rct_id]
        entry_ids_name_A == rct_id \o "," \o two_mol_name_entry_ids
        r == call.r
        reactant_node ==
            << add_node(node_name_A,
                        NodeAttr(r.rxn_type_A, r.energy_A, r.free_energy_A,
                                 entry_ids_name_A)),
               add_edge(SpeciesNode(rct_ind), node_name_A,
                        InEdge(r.free_energy_A, r.free_energy_A, r.free_energy_A)),
               add_edge(node_name_A, SpeciesNode(pro0_ind), OutEdge),
               add_edge(node_name_A, SpeciesNode(pro1_ind), OutEdge) >>
        ProductNode(node_ind) ==
            << add_node(product_node_names[node_ind],
                        NodeAttr(r.rxn_type_B, r.energy_B, r.free_energy_B,
                                 product_entry_ids_name[node_ind])),
               add_edge(product_node_names[node_ind], SpeciesNode(rct_ind), OutEdge),
               add_edge(SpeciesNode(r.pro_indices[node_ind]),
                        product_node_names[node_ind],
                        InEdge(r.free_energy_B, r.free_energy_B, r.free_energy_B)) >>
        calls == reactant_node
                     \o FlatMap(ProductNode, [k \in 1..Len(product_node_names) |-> k])
    IN  IF NoWeights(call) THEN GraphRaised(r, "TypeError")
        ELSE GraphReturned(r, DiGraph(calls))

graph_rep_1_2(reaction) ==
    IF Len(reaction.rct_ids) # 1 \/ Len(reaction.pro_ids) # 2
    THEN GraphRaised(reaction, "ValueError")
    ELSE graph_rep_1_2_body(reaction, free_energy(reaction, ReferenceTemperature))

node_names_2_2(rct_indices, pro_indices) ==
    LET pro_sorted_indices == argsort(pro_indices)
        rct_sorted_indices == argsort(rct_indices)
        base_pro_name == Join("+", Strs(Take(pro_indices, pro_sorted_indices)))
        base_rct_name == Join("+", Strs(Take(rct_indices, rct_sorted_indices)))
        pro_names_PR == NamesPR(Strs(pro_indices))
        rct_names_PR == NamesPR(Strs(rct_indices))
        rct_node_names == [k \in 1..Len(rct_names_PR) |->
                              rct_names_PR[k] \o "," \o base_pro_name]
        pro_node_names == [k \in 1..Len(pro_names_PR) |->
                              pro_names_PR[k] \o "," \o base_rct_name]
    IN  [A |-> rct_node_names, B |-> pro_node_names]

\* The body of graph_rep_2_2, call being what reaction.free_energy() did.
graph_rep_2_2_body(reaction, call) ==
    LET r == call.r
        pro_sorted_indices == argsort(r.pro_indices)
        rct_sorted_indices == argsort(r.rct_indices)
        base_pro_eids == Join("+", Take(r.pro_ids, pro_sorted_indices))
        base_rct_eids == Join("+", Take(r.rct_ids, rct_sorted_indices))
        names == node_names_2_2(r.rct_indices, r.pro_indices)
        rct_node_names == [k \in 1..Len(names.A) |-> ReactionNode(names.A[k])]
        pro_node_names == [k \in 1..Len(names.B) |-> ReactionNode(names.B[k])]
        pro_eids_PR == NamesPR(r.pro_ids)
        rct_eids_PR == NamesPR(r.rct_ids)
        rct_node_eids == [k \in 1..Len(rct_eids_PR) |->
                             rct_eids_PR[k] \o "," \o base_pro_eids]
        pro_node_eids == [k \in 1..Len(pro_eids_PR) |->
                             pro_eids_PR[k] \o "," \o base_rct_eids]
        ReactantNode(node_ind) ==
            << add_node(rct_node_names[node_ind],
                        NodeAttr(r.rxn_type_A, r.energy_A, r.free_energy_A,
                                 rct_node_eids[node_ind])),
               add_edge(SpeciesNode(r.rct_indices[node_ind]), rct_node_names[node_ind],
                        InEdge(r.free_energy_A, r.free_energy_A, r.free_energy_A)) >>
                \o AddOutEdges(rct_node_names[node_ind], r.pro_indices)
        ProductNode(node_ind) ==
            << add_node(pro_node_names[node_ind],
                        NodeAttr(r.rxn_type_B, r.energy_B, r.free_energy_B,
                                 pro_node_eids[node_ind])),
               add_edge(SpeciesNode(r.pro_indices[node_ind]), pro_node_names[node_ind],
                        InEdge(r.free_energy_B, r.free_energy_B, r.free_energy_B)) >>
                \o AddOutEdges(pro_node_names[node_ind], r.rct_indices)
        calls == FlatMap(ReactantNode, [k \in 1..Len(rct_node_names) |-> k])
                     \o FlatMap(ProductNode, [k \in 1..Len(pro_node_names) |-> k])
    IN  IF NoWeights(call) THEN GraphRaised(r, "TypeError")
        ELSE GraphReturned(r, DiGraph(calls))

graph_rep_2_2(reaction) ==
    IF Len(reaction.rct_ids) # 2 \/ Len(reaction.pro_ids) # 2
    THEN GraphRaised(reaction, "ValueError")
    ELSE graph_rep_2_2_body(reaction, free_energy(reaction, ReferenceTemperature))

\* a + "+PR_" + (b, c in ascending order of index) for the names, and the
\* same order for the ids
ThreeReac(first, second, third, second_ind, third_ind) ==
    IF second_ind <= third_ind
    THEN first \o "+PR_" \o second \o "+PR_" \o third
    ELSE first \o "+PR_" \o third \o "+PR_" \o second

node_names_3_2(rct_indices, pro_indices) ==
    LET rct0_ind == rct_indices[1]
        rct1_ind == rct_indices[2]
        rct2_ind == rct_indices[3]
        pro0_ind == pro_indices[1]
        pro1_ind == pro_indices[2]
        two_prod_name ==
            IF pro0_ind <= pro1_ind THEN str(pro0_ind) \o "+" \o str(pro1_ind)
            ELSE str(pro1_ind) \o "+" \o str(pro0_ind)
        reactants_ind_list == Take(rct_indices, argsort(rct_indices))
        reactants_name == Join("+", Strs(reactants_ind_list))
        two_prod_name0 == str(pro0_ind) \o "+PR_" \o str(pro1_ind)
        two_prod_name1 == str(pro1_ind) \o "+PR_" \o str(pro0_ind)
        three_reac_name0 ==
            ThreeReac(str(rct0_ind), str(rct1_ind), str(rct2_ind), rct1_ind, rct2_ind)
        three_reac_name1 ==
            ThreeReac(str(rct1_ind), str(rct0_ind), str(rct2_ind), rct0_ind, rct2_ind)
        three_reac_name2 ==
            ThreeReac(str(rct2_ind), str(rct0_ind), str(rct1_ind), rct0_ind, rct1_ind)
    IN  [A |-> << three_reac_name0 \o "," \o two_prod_name,
                  three_reac_name1 \o "," \o two_prod_name,
                  three_reac_name2 \o "," \o two_prod_name >>,
         B |-> << two_prod_name0 \o "," \o reactants_name,
                  two_prod_name1 \o "," \o reactants_name >>]

\* The body of graph_rep_3_2, call being what reaction.free_energy() did.
graph_rep_3_2_body(reaction, call) ==
    LET rct0_ind == reaction.rct_indices[1]
        rct1_ind == reaction.rct_indices[2]
        rct2_ind == reaction.rct_indices[3]
        pro0_ind == reaction.pro_indices[1]
        pro1_ind == reaction.pro_indices[2]
        rct0_id == reaction.rct_ids[1]
        rct1_id == reaction.rct_ids[2]
        rct2_id == reaction.rct_ids[3]
        pro0_id == reaction.pro_ids[1]
        pro1_id == reaction.pro_ids[2]
        two_prod_name_entry_ids ==
            IF pro0_ind <= pro1_ind THEN pro0_id \o "+" \o pro1_id
            ELSE pro1_id \o "+" \o pro0_id
        reactant_inds == argsort(reaction.rct_indices)
        reactants_ind_list == Take(reaction.rct_indices, reactant_inds)
        \* the sorted indices, taken at the argsort positions
        reactants_name_entry_ids == Join("+", Strs(Take(reactants_ind_list, reactant_inds)))
        three_reac_entry_ids0 == ThreeReac(rct0_id, rct1_id, rct2_id, rct1_ind, rct2_ind)
        three_reac_entry_ids1 == ThreeReac(rct1_id, rct0_id, rct2_id, rct0_ind, rct2_ind)
        three_reac_entry_ids2 == ThreeReac(rct2_id, rct0_id, rct1_id, rct0_ind, rct1_ind)
        names == node_names_3_2(reaction.rct_indices, reaction.pro_indices)
        node_name_A0 == ReactionNode(names.A[1])
        node_name_A1 == ReactionNode(names.A[2])
        node_name_A2 == ReactionNode(names.A[3])
        node_name_B0 == ReactionNode(names.B[1])
        node_name_B1 == ReactionNode(names.B[2])
        two_prod_entry_ids0 == pro0_id \o "+PR_" \o pro1_id
        two_prod_entry_ids1 == pro1_id \o "+PR_" \o pro0_id
        entry_ids_name_A0 == three_reac_entry_ids0 \o "," \o two_prod_name_entry_ids
        entry_ids_name_A1 == three_reac_entry_ids1 \o "," \o two_prod_name_entry_ids
        entry_ids_name_A2 == three_reac_entry_ids2 \o "," \o two_prod_name_entry_ids
        entry_ids_name_B0 == two_prod_entry_ids0 \o "," \o reactants_name_entry_ids
        entry_ids_name_B1 == two_prod_entry_ids1 \o "," \o reactants_name_entry_ids
        r == call.r
        free_energy_A == r.free_energy_A
        free_energy_B == r.free_energy_B
        AttrA(entry_ids) == NodeAttr(r.rxn_type_A, r.energy_A, free_energy_A, entry_ids)
        AttrB(entry_ids) == NodeAttr(r.rxn_type_B, r.energy_B, free_energy_B, entry_ids)
        InA == InEdge(free_energy_A, free_energy_A, free_energy_A)
        \* rexp=rexp(free_energy_A) on the edges into the product nodes
        InB == InEdge(free_energy_B, free_energy_B, free_energy_A)
        calls ==
            <<
               add_node(node_name_A0, AttrA(entry_ids_name_A0)),
               add_edge(SpeciesNode(rct0_ind), node_name_A0, InA),
               add_edge(node_name_A0, SpeciesNode(pro0_ind), OutEdgeNoRexp),
               add_edge(node_name_A0, SpeciesNode(pro1_ind), OutEdgeNoRexp),
               add_node(node_name_A1, AttrA(entry_ids_name_A1)),
               add_edge(SpeciesNode(rct1_ind), node_name_A1, InA),
               add_edge(node_name_A1, SpeciesNode(pro0_ind), OutEdgeNoRexp),
               add_edge(node_name_A1, SpeciesNode(pro1_ind), OutEdgeNoRexp),
               add_node(node_name_A2, AttrA(entry_ids_name_A2)),
               add_edge(SpeciesNode(rct2_ind), node_name_A2, InA),
               \* the edges out of node_name_A1 once more, none out of node_name_A2
               add_edge(node_name_A1, SpeciesNode(pro0_ind), OutEdgeNoRexp),
               add_edge(node_name_A1, SpeciesNode(pro1_ind), OutEdgeNoRexp),
               add_node(node_name_B0, AttrB(entry_ids_name_B0)),
               add_edge(SpeciesNode(pro0_ind), node_name_B0, InB),
               add_edge(node_name_B0, SpeciesNode(rct0_ind), OutEdgeNoRexp),
               add_edge(node_name_B0, SpeciesNode(rct1_ind), OutEdgeNoRexp),
               add_edge(node_name_B0, SpeciesNode(rct2_ind), OutEdgeNoRexp),
               add_node(node_name_B1, AttrB(entry_ids_name_B1)),
               add_edge(SpeciesNode(pro1_ind), node_name_B1, InB),
               add_edge(node_name_B1, SpeciesNode(rct0_ind), OutEdgeNoRexp),
               add_edge(node_name_B1, SpeciesNode(rct1_ind), OutEdgeNoRexp),
               add_edge(node_name_B1, SpeciesNode(rct2_ind), OutEdgeNoRexp) >>
    IN  IF NoWeights(call) THEN GraphRaised(r, "TypeError")
        ELSE GraphReturned(r, DiGraph(calls))

graph_rep_3_2(reaction) ==
    IF Len(reaction.rct_ids) # 3 \/ Len(reaction.pro_ids) # 2
    THEN GraphRaised(reaction, "ValueError")
    ELSE graph_rep_3_2_body(reaction, free_energy(reaction, ReferenceTemperature))

\* ConcertedReaction.swap_elements (the energy, enthalpy, entropy and charge
\* lists are read from the entries, and are swapped with them).
swap_elements(r) ==
    [r EXCEPT !.reactants = r.products,
              !.products = r.reactants,
              !.base_free_energy_A = r.base_free_energy_B,
              !.base_free_energy_B = r.base_free_energy_A,
              !.rct_ids = r.pro_ids,
              !.pro_ids = r.rct_ids,
              !.rct_indices = r.pro_indices,
              !.pro_indices = r.rct_indices]

\* ConcertedReaction.graph_representation: no branch for the other
\* cardinalities, the method returns None.
ConcertedReaction_graph_representation(r) ==
    IF Len(r.reactants) = 1 /\ Len(r.products) = 1 THEN graph_rep_1_1(r)
    ELSE IF Len(r.reactants) = 1 /\ Len(r.products) = 2 THEN graph_rep_1_2(r)
    ELSE IF Len(r.reactants) = 2 /\ Len(r.products) = 1
    THEN graph_rep_1_2(swap_elements(r))
    ELSE IF Len(r.reactants) = 2 /\ Len(r.products) = 2 THEN graph_rep_2_2(r)
    ELSE [r |-> r, outcome |-> "None", graph |-> <<>>]

\* graph_representation() of each class
graph_representation(r) ==
    IF r.archetype \in {"Redox", "Intramolecular"} THEN graph_rep_1_1(r)
    ELSE IF r.archetype \in {"Intermolecular", "Coordination"} THEN graph_rep_1_2(r)
    ELSE ConcertedReaction_graph_representation(r)

(***************************************************************************)
(* A reaction asked for its graph: through its graph_representation        *)
(* method, or by handing it to one of the four builders.                   *)
(***************************************************************************)
MaxSide == 3

\* Three entries with all their energies, at different free energies, and
\* one without an enthalpy.
GraphEntries == {e \in ThermoEntries : e.entry_id \in {"a", "b", "c", "d"}}

\* The numbers of reactants and of products a reaction is constructed with:
\* ConcertedReaction takes lists of any length.
GraphShapes(archetype) ==
    IF archetype = "Concerted" THEN (1..MaxSide) \X (1..MaxSide) ELSE Shapes(archetype)

InitGraph ==
    /\ \E archetype \in Archetypes :
           \E shape \in GraphShapes(archetype) :
               \E reactants \in [1..shape[1] -> GraphEntries] :
                   \E products \in [1..shape[2] -> GraphEntries] :
                       \E e \in ElectronFreeEnergies(archetype) :
                           rxn = Reaction_init(archetype, reactants, products, e)
    /\ rxn_pc = "constructed"
    /\ rxn_graph = <<>>
    /\ AnalyzerOff
    /\ CollectOff
    /\ LoaderOff
    /\ NetworkOff
    /\ CategorizeOff
    /\ DocumentOff

Built(result) ==
    /\ rxn_pc # "off"
    /\ rxn' = result.r
    /\ rxn_pc' = result.outcome
    /\ rxn_graph' = result.graph
    /\ UNCHANGED <<analyzerVars, collectVars, loaderVars, networkVars,
                   categorizeVars, documentVars>>

GraphRepresentation == Built(graph_representation(rxn))

GraphRep_1_1 == Built(graph_rep_1_1(rxn))

GraphRep_1_2 == Built(graph_rep_1_2(rxn))

GraphRep_2_2 == Built(graph_rep_2_2(rxn))

GraphRep_3_2 == Built(graph_rep_3_2(rxn))

NextGraph ==
    \/ GraphRepresentation
    \/ GraphRep_1_1
    \/ GraphRep_1_2
    \/ GraphRep_2_2
    \/ GraphRep_3_2

SpecGraph == InitGraph /\ [][NextGraph]_vars

(***************************************************************************)
(* Properties of the graphs.                                               *)
(***************************************************************************)
\* (number of reactants, number of products) of the reaction
GraphShape == <<Len(rxn.rct_ids), Len(rxn.pro_ids)>>

CompositeNodes(G) ==
    {G.nodes[i].key : i \in {j \in 1..Len(G.nodes) : G.nodes[j].key.type = "str"}}

EdgeKeys(G) == {G.edges[i].key : i \in 1..Len(G.edges)}

InEdges(G, n) == {e \in EdgeKeys(G) : e[2] = n}

OutEdges(G, n) == {e \in EdgeKeys(G) : e[1] = n}

\* The composite node names the builder of the cardinality gives.
NodeNames(rct_indices, pro_indices) ==
    LET shape == <<Len(rct_indices), Len(pro_indices)>>
    IN  IF shape = <<1, 1>> THEN node_names_1_1(rct_indices, pro_indices)
        ELSE IF shape = <<1, 2>> THEN node_names_1_2(rct_indices, pro_indices)
        ELSE IF shape = <<2, 2>> THEN node_names_2_2(rct_indices, pro_indices)
        ELSE node_names_3_2(rct_indices, pro_indices)

\* C11: for a reaction of one reactant and one product of distinct indices
\* r and p, the graph graph_rep_1_1 returns has exactly the two composite
\* nodes "r,p" and "p,r" and exactly four edges, one into and one out of
\* each composite node.
C11_OneToOneGraph ==
    (/\ rxn_pc = "graph"
     /\ GraphShape = <<1, 1>>
     /\ rxn.rct_indices[1] # rxn.pro_indices[1])
        => LET r == ToString(rxn.rct_indices[1])
               p == ToString(rxn.pro_indices[1])
           IN  /\ CompositeNodes(rxn_graph)
                      = {ReactionNode(r \o "," \o p), ReactionNode(p \o "," \o r)}
               /\ Cardinality(CompositeNodes(rxn_graph)) = 2
               /\ Len(rxn_graph.edges) = 4
               /\ \A n \in CompositeNodes(rxn_graph) :
                      /\ Cardinality(InEdges(rxn_graph, n)) = 1
                      /\ Cardinality(OutEdges(rxn_graph, n)) = 1

C11_Witness ==
    /\ rxn_pc = "graph"
    /\ GraphShape = <<1, 1>>
    /\ rxn.rct_indices[1] # rxn.pro_indices[1]
    /\ rxn.archetype = "Redox"
    /\ Len(rxn_graph.edges) = 4

\* C12 (as stated): every graph graph_rep_1_2 returns has exactly three
\* composite nodes and every graph graph_rep_2_2 returns has exactly four.
C12_NodePerPermutation ==
    rxn_pc = "graph"
        => /\ GraphShape = <<1, 2>> => Cardinality(CompositeNodes(rxn_graph)) = 3
           /\ GraphShape = <<2, 2>> => Cardinality(CompositeNodes(rxn_graph)) = 4

\* C12 (amended): a graph graph_rep_1_2 returns has exactly three composite
\* nodes when the two products have distinct indices, and a graph
\* graph_rep_2_2 returns has exactly four when the two reactants have
\* distinct indices, the two products have distinct indices and the reactant
\* pair is not the product pair; with equal indices the names coincide and
\* the graph has fewer composite nodes.
C12_NodePerDistinctPermutation ==
    rxn_pc = "graph"
        => LET rct == rxn.rct_indices
               pro == rxn.pro_indices
               n   == Cardinality(CompositeNodes(rxn_graph))
           IN  /\ GraphShape = <<1, 2>>
                    => IF pro[1] # pro[2] THEN n = 3 ELSE n < 3
               /\ GraphShape = <<2, 2>>
                    => IF /\ rct[1] # rct[2]
                          /\ pro[1] # pro[2]
                          /\ SeqSet(rct) # SeqSet(pro)
                       THEN n = 4
                       ELSE n < 4

C12_Witness ==
    /\ rxn_pc = "graph"
    /\ GraphShape = <<2, 2>>
    /\ rxn.rct_indices[1] # rxn.rct_indices[2]
    /\ rxn.pro_indices[1] # rxn.pro_indices[2]
    /\ SeqSet(rxn.rct_indices) # SeqSet(rxn.pro_indices)
    /\ Cardinality(CompositeNodes(rxn_graph)) = 4

\* The multiset of the members of a sequence
Multiset(seq) == [x \in SeqSet(seq) |-> CountIn(seq, x)]

\* The cardinalities the four builders accept
BuilderShapes == {<<1, 1>>, <<1, 2>>, <<2, 2>>, <<3, 2>>}

GraphIndices == {e.ind : e \in GraphEntries}

\* Every reaction a builder accepts, as its reactant and product indices
BuilderReactions ==
    UNION {[rct : [1..shape[1] -> GraphIndices], pro : [1..shape[2] -> GraphIndices]]
               : shape \in BuilderShapes}

\* The composite node names of every such reaction, both directions
NameTable ==
    [o \in BuilderReactions |->
        LET names == NodeNames(o.rct, o.pro)
        IN  SeqSet(names.A) \cup SeqSet(names.B)]

\* C13 (as stated): the names of the forward composite nodes of a reaction
\* never coincide with the names of its reverse composite nodes, and two
\* reactions that differ in (reactant index multiset, product index multiset)
\* never have a composite node name in common.
C13_NamesCollisionFree ==
    rxn_pc = "graph"
        => LET mine == NodeNames(rxn.rct_indices, rxn.pro_indices)
               all  == SeqSet(mine.A) \cup SeqSet(mine.B)
           IN  /\ {n.repr : n \in CompositeNodes(rxn_graph)} = all
               /\ SeqSet(mine.A) \cap SeqSet(mine.B) = {}
               /\ \A o \in BuilderReactions :
                      (\/ Multiset(o.rct) # Multiset(rxn.rct_indices)
                       \/ Multiset(o.pro) # Multiset(rxn.pro_indices))
                          => NameTable[o] \cap all = {}

\* C13 (amended): the names of the forward composite nodes of a reaction
\* never coincide with the names of its reverse composite nodes unless its
\* reactant index multiset is its product index multiset, and two reactions
\* have a composite node name in common only if they have the same
\* (reactant index multiset, product index multiset) or one has the
\* reactants of the other as its products and the products as its
\* reactants: the reverse node of a reaction is the forward node of the
\* reversed reaction.
C13_NamesCollideOnlyWithReverse ==
    rxn_pc = "graph"
        => LET mine == NodeNames(rxn.rct_indices, rxn.pro_indices)
               all  == SeqSet(mine.A) \cup SeqSet(mine.B)
               rct  == Multiset(rxn.rct_indices)
               pro  == Multiset(rxn.pro_indices)
           IN  /\ {n.repr : n \in CompositeNodes(rxn_graph)} = all
               /\ rct # pro => SeqSet(mine.A) \cap SeqSet(mine.B) = {}
               /\ \A o \in BuilderReactions :
                      NameTable[o] \cap all # {}
                          => \/ Multiset(o.rct) = rct /\ Multiset(o.pro) = pro
                             \/ Multiset(o.rct) = pro /\ Multiset(o.pro) = rct

\* A graph of two reactants and two products, whose names share nothing
\* with those of a reaction of the same reactants and other products.
C13_Witness ==
    /\ rxn_pc = "graph"
    /\ GraphShape = <<2, 2>>
    /\ Multiset(rxn.rct_indices) # Multiset(rxn.pro_indices)
    /\ Cardinality(CompositeNodes(rxn_graph)) = 4
    /\ \E o \in BuilderReactions :
           /\ Multiset(o.rct) = Multiset(rxn.rct_indices)
           /\ Multiset(o.pro) # Multiset(rxn.pro_indices)
           /\ Len(o.pro) = 2
           /\ NameTable[o] \cap {n.repr : n \in CompositeNodes(rxn_graph)} = {}

HasEdge(G, u, v) == \E i \in 1..Len(G.edges) : G.edges[i].key = <<u, v>>

EdgeAttr(G, u, v) ==
    G.edges[CHOOSE i \in 1..Len(G.edges) : G.edges[i].key = <<u, v>>].value

NodeAttrOf(G, n) ==
    G.nodes[CHOOSE i \in 1..Len(G.nodes) : G.nodes[i].key = n].value

\* Every composite node named has an edge to every species of the indices,
\* with all three weight fields 0.0 and weight 1.0.
PaidOutEdges(G, names, indices) ==
    \A k \in 1..Len(names) :
        \A i \in SeqSet(indices) :
            /\ HasEdge(G, ReactionNode(names[k]), SpeciesNode(i))
            /\ EdgeAttr(G, ReactionNode(names[k]), SpeciesNode(i)) = OutEdge

\* C14: in the graph each of the four builders returns, every composite node
\* has an outgoing edge to every participant of the opposite side, and each
\* such edge carries softplus = 0.0, exponent = 0.0, rexp = 0.0 and
\* weight = 1.0.
C14_OutEdgesPaid ==
    rxn_pc = "graph"
        => LET names == NodeNames(rxn.rct_indices, rxn.pro_indices)
           IN  /\ PaidOutEdges(rxn_graph, names.A, rxn.pro_indices)
               /\ PaidOutEdges(rxn_graph, names.B, rxn.rct_indices)

\* The same for the builders of one or two reactants, where it holds.
C14_ExceptThreeToTwo ==
    (rxn_pc = "graph" /\ GraphShape # <<3, 2>>)
        => LET names == NodeNames(rxn.rct_indices, rxn.pro_indices)
           IN  /\ PaidOutEdges(rxn_graph, names.A, rxn.pro_indices)
               /\ PaidOutEdges(rxn_graph, names.B, rxn.rct_indices)

\* The composite node is entered by one edge, from the species it is
\* anchored at, with its three weight fields evaluated at the free energy
\* stored on the node.
AnchoredAt(G, name, anchor) ==
    LET n  == ReactionNode(name)
        dG == NodeAttrOf(G, n).free_energy
    IN  /\ InEdges(G, n) = {<<SpeciesNode(anchor), n>>}
        /\ EdgeAttr(G, SpeciesNode(anchor), n) = InEdge(dG, dG, dG)

\* C15: in the graph each of the four builders returns, each composite node
\* has exactly one incoming edge, from its anchor species, whose softplus,
\* exponent and rexp are all evaluated at the free_energy stored on the
\* node, with weight = 1.0.
C15_InEdgeAtNodeFreeEnergy ==
    rxn_pc = "graph"
        => LET names == NodeNames(rxn.rct_indices, rxn.pro_indices)
           IN  /\ \A k \in 1..Len(names.A) :
                      AnchoredAt(rxn_graph, names.A[k], rxn.rct_indices[k])
               /\ \A k \in 1..Len(names.B) :
                      AnchoredAt(rxn_graph, names.B[k], rxn.pro_indices[k])

\* The same for the builders of one or two reactants.
C15_ExceptThreeToTwo ==
    (rxn_pc = "graph" /\ GraphShape # <<3, 2>>)
        => LET names == NodeNames(rxn.rct_indices, rxn.pro_indices)
           IN  /\ \A k \in 1..Len(names.A) :
                      AnchoredAt(rxn_graph, names.A[k], rxn.rct_indices[k])
               /\ \A k \in 1..Len(names.B) :
                      AnchoredAt(rxn_graph, names.B[k], rxn.pro_indices[k])

\* C16: asking for the graph of a reaction whose numbers of reactants and
\* products are not a supported cardinality raises an error: no builder and
\* no graph_representation method returns a graph or None for it.
C16_UnsupportedRaises ==
    (rxn_pc # "constructed" /\ GraphShape \notin BuilderShapes)
        => rxn_pc = "ValueError"

MemoizingArchetypes == {"Redox", "Intramolecular", "Intermolecular", "Coordination"}

\* C19: for Redox, Intramolecular, Intermolecular and Coordination
\* reactions, a free_energy(T) call with T other than the reference
\* temperature never changes base_free_energy_A/B, a base value that is a
\* number is never overwritten, and a free_energy call at the reference
\* temperature made once the base values are numbers sets free_energy_A/B to
\* exactly the base values.
C19_BaseMemoized ==
    [][\A temperature \in Temperatures :
           (FreeEnergy(temperature) /\ rxn.archetype \in MemoizingArchetypes)
               => /\ temperature # ReferenceTemperature
                      => /\ rxn'.base_free_energy_A = rxn.base_free_energy_A
                         /\ rxn'.base_free_energy_B = rxn.base_free_energy_B
                  /\ rxn.base_free_energy_A # NoneNum
                      => rxn'.base_free_energy_A = rxn.base_free_energy_A
                  /\ rxn.base_free_energy_B # NoneNum
                      => rxn'.base_free_energy_B = rxn.base_free_energy_B
                  /\ (temperature = ReferenceTemperature /\ BaseIsSet(rxn))
                      => /\ rxn'.free_energy_A = rxn.base_free_energy_A
                         /\ rxn'.free_energy_B = rxn.base_free_energy_B
                         /\ rxn_pc' = "free_energy"]_vars

\* The base values are numbers and the free energies, of a call at another
\* temperature, differ from them.
C19_Witness ==
    /\ rxn_pc = "free_energy"
    /\ rxn.archetype \in MemoizingArchetypes
    /\ BaseIsSet(rxn)
    /\ rxn.free_energy_A # NoneNum
    /\ rxn.free_energy_A # rxn.base_free_energy_A

\* C20: a call of graph_representation() on a reaction leaves its reactants,
\* products, rct_indices, pro_indices, rct_ids and pro_ids unchanged.
C20_GraphLeavesReaction ==
    [][GraphRepresentation
           => /\ rxn'.reactants = rxn.reactants
              /\ rxn'.products = rxn.products
              /\ rxn'.rct_indices = rxn.rct_indices
              /\ rxn'.pro_indices = rxn.pro_indices
              /\ rxn'.rct_ids = rxn.rct_ids
              /\ rxn'.pro_ids = rxn.pro_ids]_vars

\* The same for every reaction but one of two reactants and one product.
C20_ExceptTwoToOne ==
    [][(GraphRepresentation /\ GraphShape # <<2, 1>>)
           => /\ rxn'.reactants = rxn.reactants
              /\ rxn'.products = rxn.products
              /\ rxn'.rct_indices = rxn.rct_indices
              /\ rxn'.pro_indices = rxn.pro_indices
              /\ rxn'.rct_ids = rxn.rct_ids
              /\ rxn'.pro_ids = rxn.pro_ids]_vars

(***************************************************************************)
(* categorize, called again and again on the families and templates it     *)
(* returned, starting from empty ones.  The reaction of a call is known by *)
(* the number of the call.                                                 *)
(***************************************************************************)
MaxCategorized == 3

\* The local environments handed to categorize: the graphs of the pool,
\* among them O-H and H-O, isomorphic and not equal.
Environments == {m.mol_graph : m \in MoleculePool}

CategorizeCharges == {0, 1}

InitCategorize ==
    /\ cat_families = <<>>
    /\ cat_templates = <<>>
    /\ categorized = <<>>
    /\ AnalyzerOff
    /\ CollectOff
    /\ LoaderOff
    /\ NetworkOff
    /\ ReactionOff
    /\ GraphOff
    /\ DocumentOff

\* families, templates = categorize(reaction, families, templates,
\*                                  environment, charge)
Categorize(environment, charge) ==
    /\ Len(categorized) < MaxCategorized
    /\ LET reaction == Len(categorized) + 1
           out == categorize([families |-> cat_families, templates |-> cat_templates],
                             reaction, environment, charge)
       IN  /\ cat_families' = out.families
           /\ cat_templates' = out.templates
           /\ categorized' = Append(categorized,
                                    [reaction |-> reaction,
                                     environment |-> environment,
                                     charge |-> charge])
    /\ UNCHANGED <<analyzerVars, collectVars, loaderVars, networkVars,
                   reactionVars, graphVars, documentVars>>

NextCategorize ==
    \E environment \in Environments :
        \E charge \in CategorizeCharges : Categorize(environment, charge)

SpecCategorize == InitCategorize /\ [][NextCategorize]_vars

\* The (charge, label) pairs whose list families[charge][label] holds the
\* reaction, each as often as the list holds it.
FamiliesOf(families, reaction) ==
    {p \in {<<i, j, k>> : i \in 1..Len(families), j \in 0..MaxCategorized,
                          k \in 1..MaxCategorized} :
        /\ p[2] < Len(families[p[1]].value)
        /\ p[3] <= Len(families[p[1]].value[p[2] + 1].value)
        /\ families[p[1]].value[p[2] + 1].value[p[3]] = reaction}

\* C17: after any sequence of categorize calls from empty families and
\* templates, the templates are pairwise non-isomorphic, every categorized
\* reaction is in exactly one list families[charge][label], under the charge
\* it was passed with, its environment is isomorphic to templates[label],
\* and two reactions of isomorphic environments have the same label.
C17_FamiliesPartition ==
    /\ \A i, j \in 1..Len(cat_templates) :
           i # j => ~is_isomorphic(cat_templates[i], cat_templates[j])
    /\ \A c \in 1..Len(categorized) :
           LET call == categorized[c]
               held == FamiliesOf(cat_families, call.reaction)
           IN  /\ Cardinality(held) = 1
               /\ \A p \in held :
                      LET label == cat_families[p[1]].value[p[2] + 1].key
                      IN  /\ cat_families[p[1]].key = call.charge
                          /\ label < Len(cat_templates)
                          /\ is_isomorphic(call.environment, cat_templates[label + 1])
                          /\ \A d \in 1..Len(categorized) :
                                 is_isomorphic(call.environment,
                                               categorized[d].environment)
                                     <=> HasKey(cat_families, categorized[d].charge)
                                         /\ HasKey(Get(cat_families, categorized[d].charge),
                                                   label)
                                         /\ InSeq(categorized[d].reaction,
                                                  Get(Get(cat_families,
                                                          categorized[d].charge), label))

\* Two isomorphic environments that are not equal share the first template
\* and a family; a third environment started the second template.
C17_Witness ==
    /\ Len(categorized) = 3
    /\ Len(cat_templates) = 2
    /\ categorized[1].environment # categorized[2].environment
    /\ is_isomorphic(categorized[1].environment, categorized[2].environment)
    /\ categorized[1].charge = categorized[2].charge
    /\ Get(Get(cat_families, categorized[1].charge), 0) = <<1, 2>>

(***************************************************************************)
(* MoleculeEntry.from_molecule_document.  A molecule document is a dict, a *)
(* function on the keys it holds.  The value under "molecule" is a         *)
(* Molecule or a dict for Molecule.from_dict, which reads d["sites"]; the  *)
(* value under "mol_graph" is a MoleculeGraph or a dict for                *)
(* MoleculeGraph.from_dict, which reads d["graphs"].                       *)
(***************************************************************************)
DocumentKeys ==
    <<"molecule", "energy_Ha", "enthalpy_kcal/mol", "entropy_cal/molK", "task_id">>

MoleculeValues == {"Molecule", "dict", "dict without sites"}

MolGraphValues == {"MoleculeGraph", "dict", "dict without graphs"}

\* The one value of every other key of the documents
DocumentValue(key) ==
    IF key = "energy_Ha" THEN "-1.5"
    ELSE IF key = "enthalpy_kcal/mol" THEN "2.0"
    ELSE IF key = "entropy_cal/molK" THEN "3.0"
    ELSE "task-1"

\* The documents: any of the five keys and "mol_graph", each with a value.
Documents ==
    {[k \in keys |-> IF k = "molecule" THEN molecule
                     ELSE IF k = "mol_graph" THEN mol_graph
                     ELSE DocumentValue(k)]
         : keys \in SUBSET (SeqSet(DocumentKeys) \cup {"mol_graph"}),
           molecule \in MoleculeValues,
           mol_graph \in MolGraphValues}

\* str(KeyError(key)): the repr of the key
KeyError(key) == "'" \o key \o "'"

\* An exception that leaves the method, by its class.
DocumentRaised(class, message) == [outcome |-> class, message |-> message, entry |-> None]

\* The KeyError, as it would leave the method were it not caught.
KeyErrorUncaught(message) == DocumentRaised("KeyError", message)

\* raise MoleculeEntryError(message)
MoleculeEntryError(message) == DocumentRaised("MoleculeEntryError", message)

\* The first key of the sequence the try block does not find: a key of the
\* document, or "sites" of the molecule dict, read as soon as the document
\* has a molecule that is not a Molecule.
\* The message of the error, an f-string around the KeyError e (the
\* backquotes around mol_doc are left out).
MissingAttribute(e) ==
    "Unable to construct molecule entry from molecule document; missing "
    \o "attribute " \o e \o " in mol_doc."

RECURSIVE FirstKeyError(_, _)
FirstKeyError(doc, keys) ==
    IF keys = <<>> THEN None
    ELSE IF Head(keys) \notin DOMAIN doc THEN Head(keys)
    ELSE IF Head(keys) = "molecule" /\ doc["molecule"] = "dict without sites" THEN "sites"
    ELSE FirstKeyError(doc, Tail(keys))

\* cls(molecule=..., energy=..., ...), with no mol_doc: the attributes are
\* those handed over.
MoleculeEntry_init(molecule, energy_Ha, correction, enthalpy, entropy, entry_id, mol_graph) ==
    [molecule |-> molecule, uncorrected_energy |-> energy_Ha, correction |-> correction,
     enthalpy |-> enthalpy, entropy |-> entropy, entry_id |-> entry_id,
     mol_graph |-> mol_graph]

from_molecule_document(doc) ==
    LET e == FirstKeyError(doc, DocumentKeys)
    IN  IF e # None
        THEN MoleculeEntryError(MissingAttribute(KeyError(e)))
        ELSE IF "mol_graph" \in DOMAIN doc /\ doc["mol_graph"] = "dict without graphs"
        THEN DocumentRaised("KeyError", KeyError("graphs"))
        ELSE [outcome |-> "entry",
              message |-> None,
              entry |-> MoleculeEntry_init(
                            "Molecule", doc["energy_Ha"], "0.0",
                            doc["enthalpy_kcal/mol"], doc["entropy_cal/molK"],
                            doc["task_id"],
                            IF "mol_graph" \in DOMAIN doc
                            THEN "MoleculeGraph"
                            ELSE "MoleculeGraph with_local_env_strategy")]

NotCalled == [outcome |-> "not called"]

InitDocument ==
    /\ mol_doc \in Documents
    /\ doc_out = NotCalled
    /\ AnalyzerOff
    /\ CollectOff
    /\ LoaderOff
    /\ NetworkOff
    /\ ReactionOff
    /\ GraphOff
    /\ CategorizeOff

FromMoleculeDocument ==
    /\ doc_out = NotCalled
    /\ doc_out' = from_molecule_document(mol_doc)
    /\ UNCHANGED <<mol_doc, analyzerVars, collectVars, loaderVars, networkVars,
                   reactionVars, graphVars, categorizeVars>>

NextDocument == FromMoleculeDocument

SpecDocument == InitDocument /\ [][NextDocument]_vars

MissingKeys(doc) == SeqSet(DocumentKeys) \ DOMAIN doc

\* The message that names the key, in quotes.
MissingMessage(key) == MissingAttribute("'" \o key \o "'")

WellFormed(doc) ==
    /\ "molecule" \in DOMAIN doc => doc["molecule"] # "dict without sites"
    /\ "mol_graph" \in DOMAIN doc => doc["mol_graph"] # "dict without graphs"

AnchoredSide(strs, indices, k) ==
    LET others == Without([i \in 1..Len(strs) |-> i], k)
        order == Take(others, argsort(Take(indices, others)))
    IN  Join("+PR_", <<strs[k]>> \o Take(strs, order))

\* The composition of the composite names out of the strings of the
\* participants: the side entered, a comma, the members of the other side
\* in ascending order of index.
Composition(rct_strs, pro_strs, rct_indices, pro_indices) ==
    [A |-> [k \in 1..Len(rct_strs) |->
               AnchoredSide(rct_strs, rct_indices, k) \o ","
                   \o Join("+", Take(pro_strs, argsort(pro_indices)))],
     B |-> [k \in 1..Len(pro_strs) |->
               AnchoredSide(pro_strs, pro_indices, k) \o ","
                   \o Join("+", Take(rct_strs, argsort(rct_indices)))]]

\* The names of the composite nodes are composed of the indices, and the
\* entry_ids of each node are the same composition of the entry ids.
EntryIdsAsNames(G, r) ==
    LET names == Composition(Strs(r.rct_indices), Strs(r.pro_indices),
                             r.rct_indices, r.pro_indices)
        ids   == Composition(r.rct_ids, r.pro_ids, r.rct_indices, r.pro_indices)
    IN  /\ names = NodeNames(r.rct_indices, r.pro_indices)
        /\ \A k \in 1..Len(names.A) :
               NodeAttrOf(G, ReactionNode(names.A[k])).entry_ids = ids.A[k]
        /\ \A k \in 1..Len(names.B) :
               NodeAttrOf(G, ReactionNode(names.B[k])).entry_ids = ids.B[k]

\* C26: in the graph of every builder the entry_ids attribute of every
\* composite node is built from the entry ids of the participants, never
\* from their indices, with the structure of the node's name: each index
\* replaced by the entry id of the same participant.
C26_EntryIdsOfParticipants == rxn_pc = "graph" => EntryIdsAsNames(rxn_graph, rxn)

\* The same for the builders of one or two reactants.
C26_ExceptThreeToTwo ==
    (rxn_pc = "graph" /\ GraphShape # <<3, 2>>) => EntryIdsAsNames(rxn_graph, rxn)

\* C30: every graph the four builders return is bipartite between the
\* species nodes (integers) and the composite nodes (strings, carrying
\* bipartite=1): every edge joins one species node and one composite node.
C30_Bipartite ==
    rxn_pc = "graph"
        => /\ \A e \in EdgeKeys(rxn_graph) : {e[1].type, e[2].type} = {"int", "str"}
           /\ \A i \in 1..Len(rxn_graph.nodes) :
                  LET n == rxn_graph.nodes[i]
                  IN  IF n.key.type = "str"
                      THEN "bipartite" \in DOMAIN n.value /\ n.value.bipartite = 1
                      ELSE "bipartite" \notin DOMAIN n.value

\* A graph of three reactants and two products, of five composite nodes.
C30_Witness ==
    /\ rxn_pc = "graph"
    /\ GraphShape = <<3, 2>>
    /\ Cardinality(CompositeNodes(rxn_graph)) = 5
    /\ Cardinality(EdgeKeys(rxn_graph)) >= 15

(***************************************************************************)
(* The missing-precursor resolution loop, step by step.                    *)
(***************************************************************************)
\* C21: for every history that is a valid trajectory from the initial state
\* and produces the target, the resolution loop of extract_reaction_pathways
\* terminates, and on exit no species has a negative count in partial_state.
C21_ResolutionTerminates ==
    /\ an_pc # "hung"
    /\ \A i \in 1..Len(reaction_histories) :
           \A t \in Species :
               (/\ ValidTrajectory(initial_state, reaction_histories[i])
                /\ ProducesTarget(reaction_histories[i], t))
                   => LET r == ExtractPathway(initial_state, reaction_histories[i], t)
                      IN  r.status = "done" /\ NonNegative(r.partial_state)

\* The resolution steps of one pass of "for species_index in
\* negative_species": for every species of the list that has a producer in
\* the history, the species, and partial_state before and after the update.
RECURSIVE RoundSteps(_, _, _)
RoundSteps(st, history, negative_species) ==
    IF negative_species = <<>> THEN <<>>
    ELSE LET species_index == Head(negative_species)
             after == ResolveSpecies(st, history, species_index)
             step == IF FirstProducer(history, species_index) = -1 THEN <<>>
                     ELSE <<[species_index |-> species_index,
                             before |-> st.partial_state,
                             after |-> after.partial_state]>>
         IN  step \o RoundSteps(after, history, Tail(negative_species))

\* The resolution steps of the while loop, as far as it is followed.
RECURSIVE LoopSteps(_, _, _)
LoopSteps(st, history, fuel) ==
    LET negative_species == NegativeSpecies(st.partial_state)
        after == ResolveRound(st, history, negative_species)
    IN  IF negative_species = <<>> \/ after = st THEN <<>>
        ELSE RoundSteps(st, history, negative_species)
                 \o (IF fuel = 0 THEN <<>> ELSE LoopSteps(after, history, fuel - 1))

\* The resolution steps made for the history and the target.
ResolutionSteps(state, history, target_species_index) ==
    LET reaction_producing_target_index == FirstProducer(history, target_species_index)
    IN  IF reaction_producing_target_index = -1 THEN <<>>
        ELSE LoopSteps(
                 [partial_state |->
                      update_state(state, index_to_reaction(reaction_producing_target_index)),
                  pathway |-> <<reaction_producing_target_index>>],
                 history, MaxRounds)

\* C22: immediately after each resolution step (the first reaction of the
\* history that produces a species of the negative_species list applied to
\* partial_state) the species being resolved no longer has a negative count.
C22_StepResolvesSpecies ==
    \A i \in 1..Len(reaction_histories) :
        \A t \in Species :
            LET steps == ResolutionSteps(initial_state, reaction_histories[i], t)
            IN  \A k \in 1..Len(steps) :
                    steps[k].after[steps[k].species_index] >= 0

(***************************************************************************)
(* extract_species_consumption_info, and an analyzer over one history of   *)
(* up to ResolveHistLen reactions started with up to ResolveMolecules      *)
(* molecules, on which both extraction methods are called.                 *)
(***************************************************************************)
ResolveHistLen == 4
ResolveMolecules == 2

\* One occurrence of the target counted per reaction, however often the
\* reaction has it on a side.
CountReactionOnce(acc, reaction_index, target_species_index) ==
    LET reaction == index_to_reaction(reaction_index)
        consumed == IF CountIn(reaction.reactants, target_species_index) > 0 THEN 1 ELSE 0
        produced == IF CountIn(reaction.products, target_species_index) > 0 THEN 1 ELSE 0
        Bump(d, n) == IF n = 0 THEN d
                      ELSE DictPut(d, reaction_index,
                                   (IF reaction_index \in DOMAIN d THEN d[reaction_index] ELSE 0) + n)
    IN  [running_count |-> acc.running_count - consumed + produced,
         consuming_reactions |-> Bump(acc.consuming_reactions, consumed),
         producing_reactions |-> Bump(acc.producing_reactions, produced)]

\* The body of "for reaction_index in reaction_history": the running count
\* falls by one and the reaction's entry of consuming_reactions rises by one
\* for every reactant that is the target, and likewise for the products.
CountReaction(acc, reaction_index, target_species_index) ==
    LET reaction == index_to_reaction(reaction_index)
        consumed == CountIn(reaction.reactants, target_species_index)
        produced == CountIn(reaction.products, target_species_index)
        Bump(d, n) == IF n = 0 THEN d
                      ELSE DictPut(d, reaction_index,
                                   (IF reaction_index \in DOMAIN d THEN d[reaction_index] ELSE 0) + n)
    IN  [running_count |-> acc.running_count - consumed + produced,
         consuming_reactions |-> Bump(acc.consuming_reactions, consumed),
         producing_reactions |-> Bump(acc.producing_reactions, produced)]

RECURSIVE CountHistory(_, _, _)
CountHistory(acc, reaction_history, target_species_index) ==
    IF reaction_history = <<>> THEN acc
    ELSE CountHistory(CountReaction(acc, Head(reaction_history), target_species_index),
                      Tail(reaction_history), target_species_index)

RECURSIVE CountHistories(_, _, _, _)
CountHistories(acc, state, histories, target_species_index) ==
    IF histories = <<>> THEN acc
    ELSE LET counted == CountHistory(
                            [running_count |-> state[target_species_index],
                             consuming_reactions |-> acc.consuming_reactions,
                             producing_reactions |-> acc.producing_reactions],
                            Head(histories), target_species_index)
         IN  CountHistories(
                 [producing_reactions |-> counted.producing_reactions,
                  consuming_reactions |-> counted.consuming_reactions,
                  final_counts |-> Append(acc.final_counts, counted.running_count)],
                 state, Tail(histories), target_species_index)

\* running_count is a number read out of initial_state, and "-= 1" rebinds
\* the name: the state vector is only read.
extract_species_consumption_info(state, histories, target_species_index) ==
    CountHistories([producing_reactions |-> EmptyDict,
                    consuming_reactions |-> EmptyDict,
                    final_counts |-> <<>>],
                   state, histories, target_species_index)

ExtractSpeciesConsumptionInfo(target_species_index) ==
    /\ an_pc = "idle"
    /\ consumption_info' =
           <<[target_species_index |-> target_species_index,
              returned |-> extract_species_consumption_info(
                               initial_state, reaction_histories, target_species_index)]>>
    /\ UNCHANGED <<initial_state, reaction_histories, reaction_pathways_dict, an_pc,
                 collectVars, loaderVars, networkVars, reactionVars, graphVars,
                 categorizeVars, documentVars>>

ResolveStates ==
    {st \in [Species -> 0..ResolveMolecules] : SumOver(st, Species) <= ResolveMolecules}

InitResolve ==
    /\ initial_state \in ResolveStates
    /\ reaction_histories \in {<<h>> : h \in Trajectories(initial_state, ResolveHistLen)}
    /\ reaction_pathways_dict = EmptyDict
    /\ an_pc = "idle"
    /\ consumption_info = <<>>
    /\ CollectOff
    /\ LoaderOff
    /\ NetworkOff
    /\ ReactionOff
    /\ GraphOff
    /\ CategorizeOff
    /\ DocumentOff

NextResolve ==
    \/ \E t \in Species : ExtractReactionPathways(t)
    \/ \E t \in Species : ExtractSpeciesConsumptionInfo(t)

SpecResolve == InitResolve /\ [][NextResolve]_vars

\* C29: the final count extract_species_consumption_info returns for each
\* history is the target's entry of the state vector obtained by applying
\* update_state for every reaction of the history, in order, to a copy of the
\* initial state; and neither extract_species_consumption_info nor
\* extract_reaction_pathways changes initial_state.
C29_FinalCountsReplay ==
    /\ [](Len(consumption_info) = 1 =>
            LET target == consumption_info[1].target_species_index
                final_counts == consumption_info[1].returned.final_counts
            IN  /\ Len(final_counts) = Len(reaction_histories)
                /\ \A i \in 1..Len(reaction_histories) :
                       final_counts[i] = Replay(initial_state, reaction_histories[i])[target])
    /\ [][initial_state' = initial_state]_vars

C29_Witness ==
    /\ Len(consumption_info) = 1
    /\ consumption_info[1].target_species_index = 1
    /\ consumption_info[1].returned.final_counts = <<2>>
    /\ initial_state[1] = 0
    /\ 1 \in DOMAIN reaction_pathways_dict
    /\ \E i \in 1..Len(reaction_histories[1]) : reaction_histories[1][i] = 5

(***************************************************************************)
(* The families RedoxReaction.generate returns beside the reactions.       *)
(***************************************************************************)
\* The number of reactions held in families[formula][charge], over all keys.
FamiliesTotal(families) ==
    LET OfCharge(inner) == inner.value
        OfFormula(item) == FlatMap(OfCharge, item.value)
    IN  Len(FlatMap(OfFormula, families))

InFamilyOfReactant(families, r) ==
    /\ HasKey(families, formula(graph(r.reactant)))
    /\ HasKey(Get(families, formula(graph(r.reactant))), r.reactant.charge)
    /\ InSeq(r, Get(Get(families, formula(graph(r.reactant))), r.reactant.charge))

\* C28: after RedoxReaction.generate returns (reactions, families), every
\* reaction is in families[formula][charge of its reactant], and the families
\* hold len(reactions) reactions in total, for any bucketed population, one
\* where a formula occurs with several bond counts included.
C28_FamiliesHoldReactions ==
    net_pc = "redox" =>
        /\ \A i \in 1..Len(net_out.reactions) :
               InFamilyOfReactant(net_out.families, net_out.reactions[i])
        /\ FamiliesTotal(net_out.families) = Len(net_out.reactions)

\* The same for populations in which every formula has one bond count.
C28_ExceptSeveralBondCounts ==
    (net_pc = "redox" /\ \A i \in 1..Len(entries) : Len(entries[i].value) = 1) =>
        /\ \A i \in 1..Len(net_out.reactions) :
               InFamilyOfReactant(net_out.families, net_out.reactions[i])
        /\ FamiliesTotal(net_out.families) = Len(net_out.reactions)

(***************************************************************************)
(* rate_constant of the five reaction classes.  The rate calculators are   *)
(* library objects: their calculate_rate_constant is kept as a symbolic    *)
(* value of the calculator, the temperature and the direction, and the     *)
(* transition-state-theory expressions of the other branch as symbolic     *)
(* values of the free energy and the temperature.                          *)
(***************************************************************************)
\* A number, a tuple, and an attribute no statement has assigned.
PyFloat(x) == [type |-> "float", value |-> x]

PyTuple(items) == [type |-> "tuple", items |-> items]

Unassigned == [type |-> "unassigned"]

calculate_rate_constant(rate_calculator, temperature, reverse) ==
    PyFloat([calculator |-> rate_calculator, temperature |-> temperature,
             reverse |-> reverse])

\* k * temperature / h, times np.exp(-96487 * free_energy / (R * temperature))
\* unless the free energy is negative.
TransitionStateRate(free_energy_value, temperature) ==
    PyFloat([free_energy |-> free_energy_value, temperature |-> temperature])

\* The calculators the constructor or update_calculator of the class can
\* have attached.
RateCalculators(archetype, electron_free_energy) ==
    IF archetype = "Redox"
    THEN IF electron_free_energy = NoneNum THEN {None} ELSE {None, "RedoxRateCalculator"}
    ELSE {None, "ReactionRateCalculator", "ExpandedBEPRateCalculator"}

\* The else branch of every rate_constant: free_energy is called (by
\* ConcertedReaction without a temperature), and "ga < 0" raises TypeError
\* on a free energy of None.
RateFromFreeEnergy(temperature, call) ==
    IF call.raised THEN Raised(call.r)
    ELSE IF call.r.free_energy_A = NoneNum \/ call.r.free_energy_B = NoneNum
    THEN Raised(IF call.r.free_energy_A = NoneNum THEN call.r
                ELSE [call.r EXCEPT !.k_A =
                          TransitionStateRate(call.r.free_energy_A, temperature)])
    ELSE Returned([call.r EXCEPT
             !.k_A = TransitionStateRate(call.r.free_energy_A, temperature),
             !.k_B = TransitionStateRate(call.r.free_energy_B, temperature)])

rate_constant(r, temperature) ==
    LET k_A == calculate_rate_constant(r.rate_calculator, temperature, FALSE)
        k_B == calculate_rate_constant(r.rate_calculator, temperature, TRUE)
    IN  IF r.rate_calculator = None
        THEN IF r.archetype = "Concerted"
             THEN RateFromFreeEnergy(temperature, free_energy(r, ReferenceTemperature))
             ELSE RateFromFreeEnergy(temperature, free_energy(r, temperature))
        ELSE IF r.archetype = "Redox"
        THEN Returned([r EXCEPT !.k_A = k_A, !.k_B = k_B])
        ELSE IF r.archetype = "Intramolecular"
        THEN Returned([r EXCEPT !.k_A = PyTuple(<<k_A>>), !.k_B = PyTuple(<<k_B>>)])
        ELSE IF r.archetype = "Coordination"
        \* "self.k_A: ..." is an annotation, which assigns nothing
        THEN Returned(r)
        ELSE Returned([r EXCEPT !.k_A = PyTuple(<<k_A>>), !.k_B = k_B])

InitRate ==
    /\ \E archetype \in Archetypes :
           \E shape \in Shapes(archetype) :
               \E reactants \in [1..shape[1] -> ThermoEntries] :
                   \E products \in [1..shape[2] -> ThermoEntries] :
                       \E e \in ElectronFreeEnergies(archetype) :
                           \E rate_calculator \in RateCalculators(archetype, e) :
                               rxn = [rate_calculator |-> rate_calculator,
                                      k_A |-> Unassigned, k_B |-> Unassigned]
                                     @@ Reaction_init(archetype, reactants, products, e)
    /\ rxn_pc = "constructed"
    /\ AnalyzerOff
    /\ CollectOff
    /\ LoaderOff
    /\ NetworkOff
    /\ GraphOff
    /\ CategorizeOff
    /\ DocumentOff

RateConstant(temperature) ==
    /\ rxn_pc # "off"
    /\ LET call == rate_constant(rxn, temperature)
       IN  /\ rxn' = call.r
           /\ rxn_pc' = IF call.raised THEN "TypeError" ELSE "rate_constant"
    /\ UNCHANGED <<analyzerVars, collectVars, loaderVars, networkVars,
                 graphVars, categorizeVars, documentVars>>

NextRate == \E temperature \in Temperatures : RateConstant(temperature)

SpecRate == InitRate /\ [][NextRate]_vars

\* C27: for every archetype, after rate_constant(temperature) on a reaction
\* with an attached rate calculator, k_A is
\* calculate_rate_constant(temperature) and k_B is
\* calculate_rate_constant(temperature, reverse=True), each stored as that
\* single value.
C27_RateConstantsStored ==
    [][\A temperature \in Temperatures :
           (RateConstant(temperature) /\ rxn.rate_calculator # None)
               => /\ rxn'.k_A = calculate_rate_constant(rxn.rate_calculator, temperature, FALSE)
                  /\ rxn'.k_B = calculate_rate_constant(rxn.rate_calculator, temperature, TRUE)]_vars

\* The same for RedoxReaction alone.
C27_RedoxOnly ==
    [][\A temperature \in Temperatures :
           (RateConstant(temperature) /\ rxn.rate_calculator # None /\ rxn.archetype = "Redox")
               => /\ rxn'.k_A = calculate_rate_constant(rxn.rate_calculator, temperature, FALSE)
                  /\ rxn'.k_B = calculate_rate_constant(rxn.rate_calculator, temperature, TRUE)]_vars

(***************************************************************************)
(* CoordinationBondChangeReaction.generate and                             *)
(* IntramolSingleBondChangeReaction.generate, on a population with a       *)
(* metal.                                                                  *)
(***************************************************************************)
\* The formula of a single atom of the element.
SiteFormula(el) == [e \in Elements |-> IF e = el THEN 1 ELSE 0]

\* formula in ["Li1", "Mg1", "Ca1", "Zn1"]; Li stands for the four metals.
MetalFormulas == {SiteFormula("Li")}

\* "Li" in formula or "Mg" in formula or "Ca" in formula or "Zn" in formula
HasMetal(f) == f["Li"] > 0

\* The reaction keeping the reactant's charge for the metal.
ReactantCharge(charge, nonM_charge) == charge

\* M_charge = entry.charge - nonM_charge
MetalCharge(charge, nonM_charge) == charge - nonM_charge

\* The first loop of generate: M_entries[formula][charge] is the only entry
\* of entries[formula][0][charge], and the assertion fails on a second one.
MetalEntries(d) ==
    LET IsMetal(item) == item.key \in MetalFormulas
        metals == SelectSeq(d, IsMetal)
        OfFormula(item) ==
            LET by_charge == Get(item.value, 0)
            IN  <<[key |-> item.key,
                   value |-> [i \in 1..Len(by_charge) |->
                                 [key |-> by_charge[i].key,
                                  value |-> by_charge[i].value[1]]]]>>
    IN  [raised |-> \E i \in 1..Len(metals) :
                        \E j \in 1..Len(Get(metals[i].value, 0)) :
                            Len(Get(metals[i].value, 0)[j].value) # 1,
         M_entries |-> FlatMap(OfFormula, metals)]

\* The bonds of a metal atom that do not split the molecule when broken
\* alone.
nosplit_M_bonds(entry, M_entries) ==
    LET NoSplit(bond) ==
            /\ \/ HasKey(M_entries, SiteFormula(graph(entry).species[bond[1]]))
               \/ HasKey(M_entries, SiteFormula(graph(entry).species[bond[2]]))
            /\ split_molecule_subgraphs(graph(entry), <<bond>>).error
                   = "MolGraphSplitError"
    IN  SelectSeq(bonds(entry), NoSplit)

\* itertools.combinations(list, 2)
combinations_2(list) ==
    LET From(i) == [j \in 1..(Len(list) - i) |-> <<list[i], list[i + j]>>]
    IN  FlatMap(From, [i \in 1..Len(list) |-> i])

\* The body of "for nonM_charge in entries[nonM_formula][nonM_Nbonds]".
CoordinationOfCharge(entry, d, M_entries, bond_pair, frag, M_formula, nonM_charge) ==
    LET M_charge == MetalCharge(entry.charge, nonM_charge)
        first == FirstIsomorphic(
                     frag, Get(Get(Get(d, formula(frag)), Len(frag.bonds)), nonM_charge))
    IN  IF ~HasKey(Get(M_entries, M_formula), M_charge) \/ first = <<>> THEN <<>>
        ELSE MappedReaction(
                 entry, <<first[1], Get(Get(M_entries, M_formula), M_charge)>>, bond_pair,
                 generate_atom_mapping_1_2(
                     entry, <<first[1], Get(Get(M_entries, M_formula), M_charge)>>,
                     bond_pair))

\* The body of the second "for ii, frag in enumerate(frags)".
CoordinationOfFragment(entry, d, M_entries, bond_pair, frag, M_formula) ==
    LET OfCharge(nonM_charge) ==
            CoordinationOfCharge(entry, d, M_entries, bond_pair, frag, M_formula,
                                 nonM_charge)
    IN  IF ~HasKey(d, formula(frag)) \/ ~HasKey(Get(d, formula(frag)), Len(frag.bonds))
        THEN <<>>
        ELSE FlatMap(OfCharge, Keys(Get(Get(d, formula(frag)), Len(frag.bonds))))

\* The body of "for bond_pair in bond_pairs": M_ind is the first fragment
\* whose formula is a metal of M_entries.
CoordinationOfPair(entry, d, M_entries, bond_pair) ==
    LET split == split_molecule_subgraphs(graph(entry), bond_pair)
        frags == split.frags
        metal_inds == {ii \in 1..Len(frags) : HasKey(M_entries, formula(frags[ii]))}
        M_ind == CHOOSE ii \in metal_inds : \A jj \in metal_inds : ii <= jj
        OfFrag(ii) ==
            IF ii = M_ind THEN <<>>
            ELSE CoordinationOfFragment(entry, d, M_entries, bond_pair, frags[ii],
                                        formula(frags[M_ind]))
    IN  IF split.error = "MolGraphSplitError" \/ metal_inds = {} THEN <<>>
        ELSE FlatMap(OfFrag, [ii \in 1..Len(frags) |-> ii])

CoordinationBondChangeReaction_generate_one(entry, d, M_entries) ==
    LET OfPair(bond_pair) == CoordinationOfPair(entry, d, M_entries, bond_pair)
    IN  FlatMap(OfPair, combinations_2(nosplit_M_bonds(entry, M_entries)))

\* The (charge, entry) pairs in the order of the loops of generate: formulas
\* with a metal, bond counts above 2.
CoordinationCandidates(d) ==
    LET OfFormula(item) ==
            LET OfBonds(inner) ==
                    LET OfCharge(leaf) ==
                            [i \in 1..Len(leaf.value) |->
                                [charge |-> leaf.key, entry |-> leaf.value[i]]]
                    IN  IF inner.key <= 2 THEN <<>> ELSE FlatMap(OfCharge, inner.value)
            IN  IF HasMetal(item.key) THEN FlatMap(OfBonds, item.value) ELSE <<>>
    IN  FlatMap(OfFormula, d)

\* reactions.extend(rxns) and categorize(r, families, templates, g, charge)
\* for the reactions of every candidate, in order.
ExtendCategorized(items_of, candidates) ==
    LET OfCandidate(st, c) ==
            LET Classify(fam, rg) == categorize(fam, rg.reaction, rg.subg, c.charge)
                classified == Fold(Classify,
                                   [families |-> st.families, templates |-> st.templates],
                                   items_of[c])
            IN  [reactions |-> st.reactions
                                   \o [i \in 1..Len(items_of[c]) |-> items_of[c][i].reaction],
                 families |-> classified.families,
                 templates |-> classified.templates]
        done == Fold(OfCandidate,
                     [reactions |-> <<>>, families |-> <<>>, templates |-> <<>>],
                     candidates)
    IN  [raised |-> None, reactions |-> done.reactions, families |-> done.families]

CoordinationBondChangeReaction_generate(d) ==
    LET metal == MetalEntries(d)
        candidates == CoordinationCandidates(d)
        items_of == [c \in SeqSet(candidates) |->
                        CoordinationBondChangeReaction_generate_one(
                            c.entry, d, metal.M_entries)]
    IN  IF metal.raised
        THEN [raised |-> "AssertionError", reactions |-> <<>>, families |-> <<>>]
        ELSE IF metal.M_entries = <<>>
        THEN [raised |-> None, reactions |-> <<>>, families |-> <<>>]
        ELSE IF \E c \in SeqSet(candidates) : AnyRaised(items_of[c])
        THEN [raised |-> "Cannot obtain node mapping.",
              reactions |-> <<>>, families |-> <<>>]
        ELSE ExtendCategorized(items_of, candidates)

GenerateCoordination ==
    /\ net_pc = "bucketed"
    /\ net_out' = CoordinationBondChangeReaction_generate(entries)
    /\ net_pc' = IF net_out'.raised = None THEN "coordination" ELSE "AssertionError"
    /\ UNCHANGED <<mol_entries, entries, analyzerVars, collectVars, loaderVars, reactionVars,
                 graphVars, categorizeVars, documentVars>>

\* generate_atom_mapping_1_1(node_mapping)
generate_atom_mapping_1_1(node_mapping) ==
    [reactant_atom_mapping |-> [k \in DOMAIN node_mapping |-> k],
     product_atom_mapping |->
         [v \in {node_mapping[k] : k \in DOMAIN node_mapping} |->
             CHOOSE k \in DOMAIN node_mapping : node_mapping[k] = v]]

\* cls(entry0, entry1, reactant_atom_mapping=rct_mp, product_atom_mapping=prdt_mp)
IntramolSingleBondChangeReaction(entry0, entry1, mapping) ==
    [reactant |-> entry0, product |-> entry1,
     rct_atom_mapping |-> <<mapping.reactant_atom_mapping>>,
     pro_atom_mapping |-> <<mapping.product_atom_mapping>>]

\* The last entry of the list isomorphic to the graph.
LastIsomorphicTo(mg, list) ==
    LET hits == {i \in 1..Len(list) : is_isomorphic(graph(list[i]), mg)}
    IN  IF hits = {} THEN <<>>
        ELSE <<list[CHOOSE i \in hits : \A j \in hits : i >= j]>>

\* "for entry0 in entries[formula][Nbonds0][charge]" up to its break: the
\* first entry of the list isomorphic to the graph.
FirstIsomorphicTo(mg, list) ==
    LET hits == {i \in 1..Len(list) : is_isomorphic(graph(list[i]), mg)}
    IN  IF hits = {} THEN <<>>
        ELSE <<list[CHOOSE i \in hits : \A j \in hits : i <= j]>>

\* The body of "for bond in entry1.bonds".
IntramolOfBond(entry1, d, f, Nbonds0, charge, bond) ==
    LET mg == break_edge(graph(entry1), bond)
        first == FirstIsomorphicTo(mg, Get(Get(Get(d, f), Nbonds0), charge))
    IN  IF ~is_weakly_connected(mg) \/ first = <<>> THEN <<>>
        ELSE <<[reaction |->
                    IntramolSingleBondChangeReaction(
                        first[1], entry1,
                        generate_atom_mapping_1_1(
                            CHOOSE m \in IsoMappings(graph(first[1]), mg) : TRUE)),
                subg |-> extract_bond_environment(graph(entry1), <<bond>>)]>>

IntramolSingleBondChangeReaction_generate_one(entry1, d, f, Nbonds0, charge) ==
    LET OfBond(bond) == IntramolOfBond(entry1, d, f, Nbonds0, charge, bond)
    IN  FlatMap(OfBond, bonds(entry1))

\* The entries of the higher bond count in the order of the loops of
\* generate: bond counts next to each other in the sorted list that differ
\* by one, the charges of the lower bond count found at the higher one.
IntramolCandidates(d) ==
    LET OfFormula(item) ==
            LET Nbonds_list == Ascending(SeqSet(Keys(item.value)))
                OfStep(ii) ==
                    LET Nbonds0 == Nbonds_list[ii]
                        Nbonds1 == Nbonds_list[ii + 1]
                        OfCharge(charge) ==
                            IF ~HasKey(Get(item.value, Nbonds1), charge) THEN <<>>
                            ELSE [i \in 1..Len(Get(Get(item.value, Nbonds1), charge)) |->
                                     [charge |-> charge,
                                      entry |-> Get(Get(item.value, Nbonds1), charge)[i],
                                      formula |-> item.key,
                                      Nbonds0 |-> Nbonds0]]
                    IN  IF Nbonds1 - Nbonds0 # 1 THEN <<>>
                        ELSE FlatMap(OfCharge, Keys(Get(item.value, Nbonds0)))
            IN  IF Len(Nbonds_list) <= 1 THEN <<>>
                ELSE FlatMap(OfStep, [ii \in 1..(Len(Nbonds_list) - 1) |-> ii])
    IN  FlatMap(OfFormula, d)

IntramolSingleBondChangeReaction_generate(d) ==
    LET candidates == IntramolCandidates(d)
        items_of == [c \in SeqSet(candidates) |->
                        IntramolSingleBondChangeReaction_generate_one(
                            c.entry, d, c.formula, c.Nbonds0, c.charge)]
    IN  ExtendCategorized(items_of, candidates)

GenerateIntramolecular ==
    /\ net_pc = "bucketed"
    /\ net_out' = IntramolSingleBondChangeReaction_generate(entries)
    /\ net_pc' = "intramolecular"
    /\ UNCHANGED <<mol_entries, entries, analyzerVars, collectVars, loaderVars, reactionVars,
                 graphVars, categorizeVars, documentVars>>

\* The molecules of the population with a metal: Li, O, O-O, the chain and
\* the ring O3, and the ring of Li and two O with the metal as its last and
\* as its first atom.
MetalPool ==
    { [mol_graph |-> MolGraph(<<"Li">>, <<>>), charge |-> 0],
      [mol_graph |-> MolGraph(<<"Li">>, <<>>), charge |-> 1],
      [mol_graph |-> MolGraph(<<"O">>, <<>>), charge |-> 0],
      [mol_graph |-> MolGraph(<<"O", "O">>, <<<<0, 1>>>>), charge |-> 0],
      [mol_graph |-> MolGraph(<<"O", "O">>, <<<<0, 1>>>>), charge |-> -1],
      [mol_graph |-> MolGraph(<<"O", "O", "O">>, <<<<0, 1>>, <<1, 2>>>>), charge |-> 0],
      [mol_graph |-> MolGraph(<<"O", "O", "O">>, <<<<0, 1>>, <<0, 2>>, <<1, 2>>>>),
       charge |-> 0],
      [mol_graph |-> MolGraph(<<"O", "O", "Li">>, <<<<0, 1>>, <<0, 2>>, <<1, 2>>>>),
       charge |-> 0],
      [mol_graph |-> MolGraph(<<"Li", "O", "O">>, <<<<0, 1>>, <<0, 2>>, <<1, 2>>>>),
       charge |-> 0] }

InitEnumerate ==
    /\ mol_entries \in {[i \in 1..Len(q) |-> MoleculeEntry(i, q[i])] :
                            q \in SeqsUpTo(MetalPool, MaxEntries)}
    /\ entries = <<>>
    /\ net_pc = "new"
    /\ net_out = <<>>
    /\ AnalyzerOff
    /\ CollectOff
    /\ LoaderOff
    /\ ReactionOff
    /\ GraphOff
    /\ CategorizeOff
    /\ DocumentOff

NextEnumerate ==
    Bucket \/ GenerateIntermolecular \/ GenerateCoordination \/ GenerateIntramolecular

SpecEnumerate == InitEnumerate /\ [][NextEnumerate]_vars

(***************************************************************************)
(* Claims about the atom mappings and the two enumerations.                *)
(***************************************************************************)
\* The reactant is mapped by the identity, each product mapping sends the
\* atoms of its product to atoms of the reactant, and the values of the two
\* product mappings partition the atoms of the reactant.
MappingPartitions(r) ==
    LET Values(m) == {m[a] : a \in DOMAIN m}
    IN  /\ r.rct_atom_mapping = <<[a \in Atoms(graph(r.reactant)) |-> a]>>
        /\ Len(r.pro_atom_mapping) = 2
        /\ DOMAIN r.pro_atom_mapping[1] = Atoms(graph(r.product_0))
        /\ DOMAIN r.pro_atom_mapping[2] = Atoms(graph(r.product_1))
        /\ Values(r.pro_atom_mapping[1]) \cap Values(r.pro_atom_mapping[2]) = {}
        /\ Values(r.pro_atom_mapping[1]) \cup Values(r.pro_atom_mapping[2])
               = Atoms(graph(r.reactant))

\* C23: for every reaction accepted by the Intermolecular or the
\* Coordination enumeration, whichever fragment holds the lowest-index atom
\* of the reactant, generate_atom_mapping_1_2 returns without failing its
\* "Cannot obtain node mapping." assertion: the reactant mapping is the
\* identity, products_atom_mapping[i] maps each atom of products[i] to an
\* atom of the reactant, and the values of the two product mappings
\* partition the reactant's atoms.
C23_AtomMappingObtained ==
    /\ ~(net_pc = "AssertionError" /\ net_out.raised = "Cannot obtain node mapping.")
    /\ net_pc \in {"intermolecular", "coordination"} =>
           \A i \in 1..Len(net_out.reactions) : MappingPartitions(net_out.reactions[i])

\* The same for the Intermolecular enumeration, and for the reactions the
\* Coordination enumeration does return.
C23_ExceptMetalFirst ==
    /\ net_pc = "bucketed" => IntermolecularReaction_generate(entries).raised = None
    /\ net_pc \in {"intermolecular", "coordination"} =>
           \A i \in 1..Len(net_out.reactions) : MappingPartitions(net_out.reactions[i])

\* C24: IntramolSingleBondChangeReaction.generate returns, for each entry of
\* the higher bond count and each of its bonds, at most one reaction, and
\* only when breaking the bond leaves the molecule connected; the reactant
\* is the first entry, in the order of the bucket list, of the bucket of the
\* same formula, one bond less and the same charge that is isomorphic to the
\* broken graph; the product is the entry of the higher bond count.
C24_IntramolFirstIsomorphic ==
    net_pc = "intramolecular" =>
        /\ \A i \in 1..Len(net_out.reactions) :
               LET r == net_out.reactions[i]
                   f == formula(graph(r.product))
               IN  /\ HasKey(entries, f)
                   /\ HasKey(Get(entries, f), num_bonds(r.product) - 1)
                   /\ HasKey(Get(Get(entries, f), num_bonds(r.product) - 1), r.product.charge)
                   /\ InSeq(r.product, mol_entries)
                   /\ \E b \in 1..num_bonds(r.product) :
                          LET mg == break_edge(graph(r.product), bonds(r.product)[b])
                              bucket == Get(Get(Get(entries, f), num_bonds(r.product) - 1),
                                            r.product.charge)
                          IN  /\ is_weakly_connected(mg)
                              /\ \E k \in 1..Len(bucket) :
                                     /\ bucket[k] = r.reactant
                                     /\ is_isomorphic(graph(bucket[k]), mg)
                                     /\ \A j \in 1..(k - 1) :
                                            ~is_isomorphic(graph(bucket[j]), mg)
        /\ \A e \in 1..Len(mol_entries) :
               Cardinality({i \in 1..Len(net_out.reactions) :
                                net_out.reactions[i].product = mol_entries[e]})
                   <= Cardinality({b \in 1..num_bonds(mol_entries[e]) :
                                       is_weakly_connected(
                                           break_edge(graph(mol_entries[e]),
                                                      bonds(mol_entries[e])[b]))})

\* The ring O3 after two chains in the same bucket: one reaction for each
\* bond of the ring.
C24_Witness ==
    /\ net_pc = "intramolecular"
    /\ Len(net_out.reactions) = 3
    /\ Len(mol_entries) = 3
    /\ is_isomorphic(graph(mol_entries[1]), graph(mol_entries[2]))
    /\ mol_entries[1].charge = mol_entries[2].charge
    /\ net_out.reactions[1].product = mol_entries[3]

\* C25: every reaction CoordinationBondChangeReaction.generate returns has a
\* reactant of more than two bonds, as its second product the only bucketed
\* entry of a metal formula and its charge, and charge(reactant) =
\* charge(product_0) + charge(product_1); it breaks two bonds of which
\* neither disconnects the reactant when broken alone.
C25_CoordinationReactions ==
    net_pc = "coordination" =>
        \A i \in 1..Len(net_out.reactions) :
            LET r == net_out.reactions[i]
                g == graph(r.reactant)
            IN  /\ num_bonds(r.reactant) > 2
                /\ formula(graph(r.product_1)) \in MetalFormulas
                /\ {e \in 1..Len(mol_entries) :
                        /\ formula(graph(mol_entries[e])) = formula(graph(r.product_1))
                        /\ mol_entries[e].charge = r.product_1.charge}
                       = {r.product_1.entry_id}
                /\ mol_entries[r.product_1.entry_id] = r.product_1
                /\ r.reactant.charge = r.product_0.charge + r.product_1.charge
                /\ \E b1, b2 \in 1..num_bonds(r.reactant) :
                       /\ b1 < b2
                       /\ is_weakly_connected(break_edge(g, bonds(r.reactant)[b1]))
                       /\ is_weakly_connected(break_edge(g, bonds(r.reactant)[b2]))
                       /\ LET split == split_molecule_subgraphs(
                                           g, <<bonds(r.reactant)[b1], bonds(r.reactant)[b2]>>)
                          IN  /\ split.error = None
                              /\ \E k \in 1..Len(split.frags) :
                                     is_isomorphic(split.frags[k], graph(r.product_0))
                              /\ \E k \in 1..Len(split.frags) :
                                     is_isomorphic(split.frags[k], graph(r.product_1))

\* The ring of Li and two O, neutral, split into the anion O-O and Li+.
C25_Witness ==
    /\ net_pc = "coordination"
    /\ Len(net_out.reactions) = 1
    /\ net_out.reactions[1].product_0.charge = -1
    /\ net_out.reactions[1].product_1.charge = 1

====
